---- MODULE Spec2Model ----
(***************************************************************************)
(* Verification model of the CASearch retrieval and indexing core.         *)
(*                                                                         *)
(* Part I  (SpecStore): the relational store (SQLite, WAL, one connection  *)
(*   per get_db() scope), the vector collection (ChromaDB) and the PDF     *)
(*   directory, with the operations scan_agreements, index_file,           *)
(*   rebuild_fts_index and the admin delete_document.                      *)
(* Part II (SpecRetrieve): _parallel_hybrid_retrieve and                   *)
(*   _weighted_rrf_fusion of app/services/qa.py.                           *)
(***************************************************************************)
EXTENDS Integers, Sequences, FiniteSets, TLC

VARIABLES
    disk,      \* AGREEMENTS_DIR: path -> NoFile or the PDF version stored there
    db,        \* committed content of app.db (what every other connection reads)
    tx,        \* working copy of the connection that holds the write lock (= db when none)
    writer,    \* holder of SQLite's single write lock: a worker or "none"
    vec,       \* ChromaDB collection: set of entries [file_id, chunk_id, doc]
    run,       \* per worker thread: the position of its index_file call
    task,      \* per retriever task: "running", "done" or "failed"
    res,       \* per retriever task: the hit list it returns (fixed store, fixed query)
    collected, \* tasks whose future the as_completed loop has already consumed
    all_results, \* qa.py all_results: the non-empty lists, in completion order
    methods,   \* the method name of each list of all_results, in the same order
    rpc,       \* position of _parallel_hybrid_retrieve
    clock,     \* time since as_completed was called, in ticks of TickSeconds
    timedOut,  \* as_completed raised TimeoutError
    ret,       \* what the call returned: [fused, method, weights, at]
    fusion,    \* a call of _weighted_rrf_fusion: its arguments, scores and result
    fallback,  \* a call of _retrieve_with_fallback: its inputs, trace and result
    answer,    \* a call of answer_question: hits, packed context, LLM reply, response
    synonyms,  \* the synonym store, the module caches and the calls in flight
    repeated,  \* a call of detect_repeated_lines: the pages and the lines it returns
    chunker,   \* a call of create_semantic_chunks: the document and its chunks
    batch,     \* an index-all request: the documents it selected and its position
    toggles,   \* the toggle_file_public_read calls in flight and completed
    update     \* _apply_pending_update at startup: the files in DATA_DIR and its position

storeVars == <<disk, db, tx, writer, vec, run>>
retrVars  == <<task, res, collected, all_results, methods, rpc, clock, timedOut, ret>>
pureVars  == <<fusion, fallback, answer, synonyms, repeated, chunker>>
opsVars   == <<batch, toggles, update>>
vars      == <<disk, db, tx, writer, vec, run,
               task, res, collected, all_results, methods, rpc, clock, timedOut, ret,
               fusion, fallback, answer, synonyms, repeated, chunker,
               batch, toggles, update>>

(***************************************************************************)
(* Bounds                                                                  *)
(***************************************************************************)
MaxFileId  == 2      \* file rows ever created (AUTOINCREMENT ids 1..MaxFileId)
MaxPageId  == 4      \* pdf_pages rows ever created
MaxChunkId == 4      \* document_chunks rows ever created

Paths   == {"a.pdf"}
Workers == {"w1"}
NoWriter == "none"
NoFile == "absent"

(***************************************************************************)
(* PDF versions that can lie in the directory.  The hash of a version is   *)
(* the version itself (compute_sha256 is injective on the model's files).  *)
(***************************************************************************)
Versions == {"v1", "empty", "corrupt"}


\* PdfReader(filepath) succeeds
Readable(v) == v # "corrupt"

\* len(reader.pages)
PageCount(v) == IF v = "v1" THEN 2 ELSE 0

\* number of chunks create_semantic_chunks yields for the document
ChunkCount(v) == IF v = "v1" THEN 2 ELSE 0

\* number of tables extract_all_tables yields for the document
TableCount(v) == IF v = "v1" THEN 1 ELSE 0

\* length in characters of chunk n of version v (chunks run up to about 2000)
ChunkLen(v, n) == IF n = 1 THEN 1800 ELSE 600

DocLimit == 1000

Min(a, b) == IF a < b THEN a ELSE b

\* text of page n / chunk n of version v
PageText(v, n)  == [ver |-> v, n |-> n]
ChunkText(v, n) == [ver |-> v, n |-> n, len |-> ChunkLen(v, n)]

\* text[:1000], the document stored with an embedding
Truncate(t) == [t EXCEPT !.len = Min(t.len, DocLimit)]

NULL == -1
NoError == "NULL"

(***************************************************************************)
(* Relational store                                                        *)
(***************************************************************************)
EmptyDb ==
    [files |-> <<>>, pages |-> {}, pfts |-> {}, chunks |-> {}, cfts |-> {},
     tables |-> {}, nextFile |-> 1, nextPage |-> 1, nextChunk |-> 1]

FileIds(d) == DOMAIN d.files

PagesOf(d, f)  == {r \in d.pages  : r.file_id = f}
PftsOf(d, f)   == {r \in d.pfts   : r.file_id = f}
ChunksOf(d, f) == {r \in d.chunks : r.file_id = f}
CftsOf(d, f)   == {r \in d.cfts   : r.file_id = f}
TablesOf(d, f) == {r \in d.tables : r.file_id = f}
VecOf(f)       == {e \in vec : e.file_id = f}

\* DELETE FROM files WHERE id = f, with PRAGMA foreign_keys=ON: ON DELETE CASCADE
\* removes pdf_pages, document_chunks and document_tables; the FTS5 virtual
\* tables have no foreign key and keep their rows.
DeleteFileRow(d, f) ==
    [d EXCEPT !.files  = [g \in FileIds(d) \ {f} |-> d.files[g]],
              !.pages  = {r \in d.pages  : r.file_id # f},
              !.chunks = {r \in d.chunks : r.file_id # f},
              !.tables = {r \in d.tables : r.file_id # f}]

\* get_db(): conn.commit() on scoped exit
Commit(d) == db' = d /\ tx' = d /\ writer' = NoWriter

\* get_db(): conn.rollback() when the scope is left by an exception; the
\* connection's uncommitted working copy d is discarded
Rollback(d) == db' = db /\ tx' = db /\ writer' = NoWriter

IdleRun == [pc |-> "idle", file |-> 0, path |-> "", us |-> FALSE, be |-> FALSE,
            ver |-> "", cc |-> 0, i |-> 0]

\* a call that is not part of the specification at hand
Off == [pc |-> "off"]

\* no request of the operations part is in progress
OpsIdle == batch = Off /\ toggles = Off /\ update = Off

PureIdle ==
    /\ fusion = Off /\ fallback = Off /\ answer = Off
    /\ synonyms = Off /\ repeated = Off /\ chunker = Off
    /\ OpsIdle

RetrIdle ==
    /\ task = <<>> /\ res = <<>> /\ collected = {}
    /\ all_results = <<>> /\ methods = <<>> /\ rpc = "off"
    /\ clock = 0 /\ timedOut = FALSE
    /\ ret = [fused |-> <<>>, method |-> "pending", weights |-> <<>>, at |-> 0]

InitStore ==
    /\ disk = [p \in Paths |-> NoFile]
    /\ db = EmptyDb /\ tx = EmptyDb /\ writer = NoWriter
    /\ vec = {}
    /\ run = [w \in Workers |-> IdleRun]
    /\ RetrIdle
    /\ PureIdle

(***************************************************************************)
(* scan_agreements                                                         *)
(***************************************************************************)
\* the file row whose path is p, among the rows read at the start of the scan
RowOfPath(d, p) == CHOOSE f \in FileIds(d) : d.files[f].path = p

ExistingPaths(d) == {d.files[f].path : f \in FileIds(d)}

\* body of the first loop for one PDF found in the directory; `old` is the
\* snapshot existing_rows and d the connection's working copy
ScanOne(old, d, p) ==
    IF p \notin ExistingPaths(old)
    THEN \* new file: INSERT INTO files ... status 'pending'
         [d EXCEPT !.files = [g \in FileIds(d) \cup {d.nextFile} |->
                                 IF g = d.nextFile
                                 THEN [path |-> p, sha |-> disk[p], status |-> "pending",
                                       pages |-> NULL, last_error |-> NoError]
                                 ELSE d.files[g]],
                   !.nextFile = d.nextFile + 1]
    ELSE LET f == RowOfPath(old, p) IN
         IF old.files[f].sha # disk[p]
         THEN \* changed file: reset the row, clear pdf_pages and page_fts
              [d EXCEPT !.files[f] = [@ EXCEPT !.sha = disk[p], !.status = "pending",
                                               !.last_error = NoError, !.pages = NULL],
                        !.pages = {r \in d.pages : r.file_id # f},
                        !.pfts  = {r \in d.pfts  : r.file_id # f}]
         ELSE d

RECURSIVE ScanFiles(_, _, _)
ScanFiles(old, d, pdf_files) ==
    IF pdf_files = <<>> THEN d
    ELSE ScanFiles(old, ScanOne(old, d, Head(pdf_files)), Tail(pdf_files))

\* second loop: rows whose path is no longer in the directory
RECURSIVE ScanMissing(_, _)
ScanMissing(d, gone) ==
    IF gone = {} THEN d
    ELSE LET f == CHOOSE g \in gone : TRUE
         IN ScanMissing(DeleteFileRow(d, f), gone \ {f})

\* the orders in which glob("*.pdf") can list the set S of paths
Listings(S) ==
    {s \in UNION {[1..n -> S] : n \in {Cardinality(S)}} :
        \A i, j \in DOMAIN s : i # j => s[i] # s[j]}

scan_agreements ==
    /\ writer = NoWriter
    /\ LET onDisk == {p \in Paths : disk[p] # NoFile}
           fresh  == onDisk \ ExistingPaths(db)
           gone   == {f \in FileIds(db) : db.files[f].path \notin onDisk}
       IN /\ db.nextFile + Cardinality(fresh) <= MaxFileId + 1
          /\ \E pdf_files \in Listings(onDisk) :
                Commit(ScanMissing(ScanFiles(db, db, pdf_files), gone))
    /\ UNCHANGED <<disk, vec, run>>
    /\ UNCHANGED <<retrVars, pureVars, opsVars>>

(***************************************************************************)
(* admin delete_document                                                   *)
(***************************************************************************)
delete_document(f) ==
    /\ writer = NoWriter
    /\ f \in FileIds(db)
    \* pdf_path.unlink()
    /\ disk' = [disk EXCEPT ![db.files[f].path] = NoFile]
    /\ LET \* DELETE FROM page_fts WHERE file_id = ?
           d1 == [db EXCEPT !.pfts = {r \in db.pfts : r.file_id # f}]
           \* DELETE FROM chunk_fts WHERE file_id IN
           \*    (SELECT id FROM document_chunks WHERE file_id = ?)
           ids == {c.id : c \in ChunksOf(d1, f)}
           d2 == [d1 EXCEPT !.cfts = {r \in d1.cfts : r.file_id \notin ids}]
       IN Commit(DeleteFileRow(d2, f))
    /\ UNCHANGED <<vec, run>>
    /\ UNCHANGED <<retrVars, pureVars, opsVars>>

(***************************************************************************)
(* rebuild_fts_index                                                       *)
(***************************************************************************)
\* DELETE FROM page_fts, then one row per pdf_pages row of a file whose status
\* is 'indexed'
RebuiltFts(d) ==
    LET rows == {p \in d.pages : p.file_id \in FileIds(d)
                                    /\ d.files[p.file_id].status = "indexed"}
    IN [d EXCEPT !.pfts =
           {[file_id |-> p.file_id, page_id |-> p.id,
             page_number |-> p.page_number, text |-> p.text] : p \in rows}]

rebuild_fts_index ==
    /\ writer = NoWriter
    /\ Commit(RebuiltFts(db))
    /\ UNCHANGED <<disk, vec, run>>
    /\ UNCHANGED <<retrVars, pureVars, opsVars>>

(***************************************************************************)
(* The PDF directory changes under the program (upload, copy, removal).    *)
(***************************************************************************)
WritePdf(p, v) ==
    /\ disk[p] # v
    /\ disk' = [disk EXCEPT ![p] = v]
    /\ UNCHANGED <<db, tx, writer, vec, run>>
    /\ UNCHANGED <<retrVars, pureVars, opsVars>>

RemovePdf(p) ==
    /\ disk[p] # NoFile
    /\ disk' = [disk EXCEPT ![p] = NoFile]
    /\ UNCHANGED <<db, tx, writer, vec, run>>
    /\ UNCHANGED <<retrVars, pureVars, opsVars>>

(***************************************************************************)
(* index_file(file_id, use_structure, build_embeddings), run by a worker   *)
(* thread (asyncio.to_thread in index_all_stream) or a request handler.    *)
(***************************************************************************)
\* lines 33-43: read the path, UPDATE status = 'indexing', conn.commit()
MarkIndexing(w, f, us, be) ==
    /\ run[w].pc = "idle"
    /\ writer = NoWriter
    /\ db.nextPage + PageCount("v1") <= MaxPageId + 1
    /\ db.nextChunk + ChunkCount("v1") <= MaxChunkId + 1
    /\ f \in FileIds(db)
    /\ Commit([db EXCEPT !.files[f].status = "indexing"])
    /\ run' = [run EXCEPT ![w] = [IdleRun EXCEPT !.pc = "marked", !.file = f,
                                     !.path = db.files[f].path, !.us = us, !.be = be]]
    /\ UNCHANGED <<disk, vec>>

\* a call of index_file by a request handler or a script
index_file_mark(w, f, us, be) ==
    /\ MarkIndexing(w, f, us, be)
    /\ UNCHANGED <<retrVars, pureVars, opsVars>>

\* rows written by lines 50-71 for version v: the file's pages with fresh ids
NewPages(d, f, v) ==
    {[id |-> d.nextPage + n - 1, file_id |-> f, page_number |-> n,
      text |-> PageText(v, n)] : n \in 1..PageCount(v)}

NewPfts(d, f, v) ==
    {[file_id |-> f, page_id |-> d.nextPage + n - 1, page_number |-> n,
      text |-> PageText(v, n)] : n \in 1..PageCount(v)}

\* rows written by lines 113-139 when the loop inserted the first k chunks
NewChunks(d, f, v, k) ==
    {[id |-> d.nextChunk + n - 1, file_id |-> f, chunk_number |-> n,
      text |-> ChunkText(v, n)] : n \in 1..k}

NewCfts(d, f, v, k) ==
    {[file_id |-> f, chunk_id |-> d.nextChunk + n - 1,
      text |-> ChunkText(v, n)] : n \in 1..k}

\* rows written by lines 79-99 when table extraction yielded t tables
NewTables(f, v, t) ==
    {[file_id |-> f, table_index |-> n, ver |-> v] : n \in 1..t}

\* the same inserts without the DELETE statements of lines 50-56
StoreContentNoClear(d, f, v, t, k) ==
    [d EXCEPT !.pages  = @ \cup NewPages(d, f, v),
              !.pfts   = @ \cup NewPfts(d, f, v),
              !.chunks = @ \cup NewChunks(d, f, v, k),
              !.cfts   = @ \cup NewCfts(d, f, v, k),
              !.tables = @ \cup NewTables(f, v, t),
              !.nextPage  = d.nextPage + PageCount(v),
              !.nextChunk = d.nextChunk + k]

\* lines 47-142 on the connection's working copy: clear the file's rows, insert
\* pages and page_fts, t tables, and k chunks with their chunk_fts rows
StoreContent(d, f, v, t, k) ==
    [d EXCEPT !.pages  = {r \in d.pages  : r.file_id # f} \cup NewPages(d, f, v),
              !.pfts   = {r \in d.pfts   : r.file_id # f} \cup NewPfts(d, f, v),
              !.chunks = {r \in d.chunks : r.file_id # f} \cup NewChunks(d, f, v, k),
              !.cfts   = {r \in d.cfts   : r.file_id # f} \cup NewCfts(d, f, v, k),
              !.tables = {r \in d.tables : r.file_id # f} \cup NewTables(f, v, t),
              !.nextPage  = d.nextPage + PageCount(v),
              !.nextChunk = d.nextChunk + k]

\* lines 199-202 / 206-209: UPDATE files SET status = 'error', last_error = str(e)
MarkError(d, f, msg) ==
    IF f \in FileIds(d)
    THEN [d EXCEPT !.files[f] = [@ EXCEPT !.status = "error", !.last_error = msg]]
    ELSE d

\* lines 198-210 then get_db's except branch: the handler's UPDATE is executed
\* on the open transaction, the exception is re-raised (no commit in the
\* handler), and the context manager rolls the transaction back before the
\* caller sees the exception.
RaiseToCaller(w, msg) ==
    /\ Rollback(MarkError(tx, run[w].file, msg))
    /\ run' = [run EXCEPT ![w] = IdleRun]

\* line 47 raises ExtractionError (PDF missing or unreadable), or the first
\* INSERT INTO pdf_pages violates the foreign key because the file row is gone
index_file_extract_fails(w) ==
    /\ run[w].pc = "marked"
    /\ writer = NoWriter
    /\ \/ disk[run[w].path] = NoFile
       \/ ~Readable(disk[run[w].path])
       \/ run[w].file \notin FileIds(db) /\ PageCount(disk[run[w].path]) > 0
    /\ RaiseToCaller(w, "Cannot read PDF")
    /\ UNCHANGED <<disk, vec>>
    /\ UNCHANGED <<retrVars, pureVars, opsVars>>

\* lines 47-142: extraction succeeds; the first DELETE takes the write lock.
\* Table extraction may fail (swallowed at line 103: no tables); structure
\* extraction or a chunk INSERT may fail (swallowed at line 140: the chunks
\* inserted so far stay in the transaction).
index_file_store(w) ==
    /\ run[w].pc = "marked"
    /\ writer = NoWriter
    /\ LET f == run[w].file
           v == disk[run[w].path]
       IN /\ v # NoFile /\ Readable(v)
          /\ f \in FileIds(db) \/ PageCount(v) = 0
          /\ \E t \in {0, TableCount(v)} :
             \E k \in (IF run[w].us THEN 0..ChunkCount(v) ELSE {0}) :
                /\ tx' = StoreContent(db, f, v, t, k)
                /\ run' = [run EXCEPT ![w].pc = "stored", ![w].ver = v, ![w].cc = k]
    /\ writer' = w
    /\ UNCHANGED <<disk, db, vec>>
    /\ UNCHANGED <<retrVars, pureVars, opsVars>>

\* delete_file_embeddings(file_id): collection.get(where file_id) then
\* collection.delete(ids); any exception is logged and False returned
delete_file_embeddings(f, ok) ==
    IF ok THEN {e \in vec : e.file_id # f} ELSE vec

\* lines 146-166: build_embeddings and chunk_count > 0: clear the file's
\* embeddings and select the chunk rows to embed
index_file_clear_embeddings(w) ==
    /\ run[w].pc = "stored"
    /\ run[w].be /\ run[w].cc > 0
    /\ \E ok \in BOOLEAN : vec' = delete_file_embeddings(run[w].file, ok)
    /\ run' = [run EXCEPT ![w].pc = "embedding", ![w].i = 1]
    /\ UNCHANGED <<disk, db, tx, writer>>
    /\ UNCHANGED <<retrVars, pureVars, opsVars>>

\* add_chunk_embedding: collection.upsert under id chunk_<file_id>_<chunk_id>
\* with documents=[text[:1000]]; returns False when embedding or upsert raises
add_chunk_embedding(c, ok) ==
    IF ok
    THEN {e \in vec : ~(e.file_id = c.file_id /\ e.chunk_id = c.id)}
         \cup {[file_id |-> c.file_id, chunk_id |-> c.id, doc |-> Truncate(c.text)]}
    ELSE vec

\* lines 168-179: one iteration of the loop over chunk_rows (ORDER BY chunk_number)
index_file_add_embedding(w) ==
    /\ run[w].pc = "embedding"
    /\ run[w].i <= run[w].cc
    /\ LET c == CHOOSE r \in ChunksOf(tx, run[w].file) : r.chunk_number = run[w].i
       IN \E ok \in BOOLEAN : vec' = add_chunk_embedding(c, ok)
    /\ run' = [run EXCEPT ![w].i = @ + 1]
    /\ UNCHANGED <<disk, db, tx, writer>>
    /\ UNCHANGED <<retrVars, pureVars, opsVars>>

\* the try block of lines 147-181 is left by an exception (import of the
\* vector backend fails, the SELECT fails); swallowed at line 182
index_file_embedding_aborts(w) ==
    /\ run[w].pc = "embedding"
    /\ run[w].i <= run[w].cc
    /\ run' = [run EXCEPT ![w].i = run[w].cc + 1]
    /\ UNCHANGED <<disk, db, tx, writer, vec>>
    /\ UNCHANGED <<retrVars, pureVars, opsVars>>

\* the run has passed the embedding block
EmbeddingDone(r) ==
    \/ r.pc = "stored" /\ ~(r.be /\ r.cc > 0)
    \/ r.pc = "embedding" /\ r.i > r.cc

\* lines 185-196 and get_db's commit: status 'indexed', pages = len(pages)
index_file_commit(w) ==
    /\ EmbeddingDone(run[w])
    /\ LET f == run[w].file
       IN Commit(IF f \in FileIds(tx)
                 THEN [tx EXCEPT !.files[f] = [@ EXCEPT !.status = "indexed",
                                                        !.pages = PageCount(run[w].ver),
                                                        !.last_error = NoError]]
                 ELSE tx)
    /\ run' = [run EXCEPT ![w] = IdleRun]
    /\ UNCHANGED <<disk, vec>>
    /\ UNCHANGED <<retrVars, pureVars, opsVars>>

\* a statement after the write lock was taken raises (disk full, I/O error):
\* lines 205-210, then rollback
index_file_fails(w) ==
    /\ run[w].pc \in {"stored", "embedding"}
    /\ RaiseToCaller(w, "disk I/O error")
    /\ UNCHANGED <<disk, vec>>
    /\ UNCHANGED <<retrVars, pureVars, opsVars>>

NextStore ==
    \/ scan_agreements
    \/ \E f \in 1..MaxFileId : delete_document(f)
    \/ rebuild_fts_index
    \/ \E p \in Paths, v \in Versions : WritePdf(p, v)
    \/ \E p \in Paths : RemovePdf(p)
    \/ \E w \in Workers, f \in 1..MaxFileId, us \in BOOLEAN, be \in BOOLEAN :
          index_file_mark(w, f, us, be)
    \/ \E w \in Workers : index_file_extract_fails(w)
    \/ \E w \in Workers : index_file_store(w)
    \/ \E w \in Workers : index_file_clear_embeddings(w)
    \/ \E w \in Workers : index_file_add_embedding(w)
    \/ \E w \in Workers : index_file_embedding_aborts(w)
    \/ \E w \in Workers : index_file_commit(w)
    \/ \E w \in Workers : index_file_fails(w)

SpecStore == InitStore /\ [][NextStore]_vars

(***************************************************************************)
(* Claims about the store                                                  *)
(***************************************************************************)
\* what a reading connection and a vector query see of file f
ReaderView(d, vc, f) ==
    [file   |-> IF f \in FileIds(d) THEN <<d.files[f]>> ELSE <<>>,
     pages  |-> PagesOf(d, f),  pfts |-> PftsOf(d, f),
     chunks |-> ChunksOf(d, f), cfts |-> CftsOf(d, f),
     tables |-> TablesOf(d, f),
     vec    |-> {e \in vc : e.file_id = f}]

\* the step in which worker w's index_file call hands an exception to its caller
Raises(w) == run[w].pc # "idle" /\ run'[w].pc = "idle" /\ db' = db

\* the step in which worker w's index_file call commits status 'indexed'
Commits(w) ==
    /\ writer = w /\ writer' = NoWriter
    /\ run[w].file \in FileIds(db')
    /\ db'.files[run[w].file].status = "indexed"

\* C1: when an index_file call that has marked its file 'indexing' fails and
\* hands the exception to its caller, the file's persisted status is 'error'
\* and last_error holds the message.
C1_FailureLeavesError ==
    [][\A w \in Workers :
         (Raises(w) /\ run[w].file \in FileIds(db'))
            => /\ db'.files[run[w].file].status = "error"
               /\ db'.files[run[w].file].last_error # NoError]_vars

\* C2: while an index_file run holds its write transaction open, no step
\* changes what readers see of the file (relational rows, full-text rows,
\* vector entries, status, page count): the new content appears only with
\* the commit.
C2_ReadersNeverSeeHalfIndexed ==
    [][\A w \in Workers :
         (writer = w /\ writer' = w)
            => ReaderView(db', vec', run[w].file) = ReaderView(db, vec, run[w].file)]_vars

\* C3: a commit that sets status 'indexed' leaves all chunks of the document
\* in the store when structure extraction was requested, and an embedding for
\* every chunk row when embeddings were requested.
C3_IndexedImpliesComplete ==
    [][\A w \in Workers :
         Commits(w) =>
            LET f == run[w].file IN
            /\ run[w].us => Cardinality(ChunksOf(db', f)) = ChunkCount(run[w].ver)
            /\ run[w].be => \A c \in ChunksOf(db', f) :
                               \E e \in vec' : e.file_id = f /\ e.chunk_id = c.id]_vars

\* C4: every file with status 'indexed' has as many page rows as its stored
\* page count, that count is positive, and page_fts holds as many rows for it.
C4_IndexedPageCounts ==
    \A f \in FileIds(db) :
        db.files[f].status = "indexed" =>
            /\ Cardinality(PagesOf(db, f)) = db.files[f].pages
            /\ db.files[f].pages > 0
            /\ Cardinality(PftsOf(db, f)) = db.files[f].pages

\* file ids that were assigned once and whose row has been deleted
DeletedFileIds == (1..(db.nextFile - 1)) \ FileIds(db)

\* C5: no page, chunk, table or embedding of a deleted file remains.
C5_DeleteCascades ==
    \A f \in DeletedFileIds :
        /\ PagesOf(db, f) = {} /\ ChunksOf(db, f) = {} /\ TablesOf(db, f) = {}
        /\ VecOf(f) = {}

\* one page_fts row per pdf_pages row and one chunk_fts row per
\* document_chunks row, and no others
FtsInSync(d) ==
    /\ {<<r.file_id, r.page_id>> : r \in d.pfts}  = {<<p.file_id, p.id>> : p \in d.pages}
    /\ {<<r.file_id, r.chunk_id>> : r \in d.cfts} = {<<c.file_id, c.id>> : c \in d.chunks}

\* C6: a committed write that inserts or deletes pages or chunks leaves the
\* full-text indexes with exactly one row per page row and per chunk row.
C6_FtsFollowsWrites ==
    [][(FtsInSync(db) /\ (db'.pages # db.pages \/ db'.chunks # db.chunks))
          => FtsInSync(db')]_vars

\* C7: after an index_file commit every vector entry of the file names a chunk
\* row of the file and carries (the stored prefix of) that chunk's text.
C7_VectorsMatchChunks ==
    [][\A w \in Workers :
         Commits(w) =>
            \A e \in {x \in vec' : x.file_id = run[w].file} :
               \E c \in ChunksOf(db', run[w].file) :
                  c.id = e.chunk_id /\ e.doc = Truncate(c.text)]_vars

(***************************************************************************)
(* Part II.  _parallel_hybrid_retrieve and _weighted_rrf_fusion            *)
(***************************************************************************)
MaxHits == 2          \* longest hit list a retriever returns
MaxClock == 60        \* seconds of the call that are explored

RRF_K         == 60
GatherTimeout == 30   \* as_completed(futures, timeout=30)
TickSeconds   == 30   \* granularity of the clock

\* the four futures, in the order of executor.submit
Methods == <<"semantic", "chunk", "fts", "expanded">>
MethodSet == {Methods[i] : i \in DOMAIN Methods}

\* weights = [1.5, 1.2, 1.0, 0.8], in tenths
Weights == <<15, 12, 10, 8>>

\* the weight the retriever itself is meant to carry
OwnWeight(m) == Weights[CHOOSE i \in DOMAIN Methods : Methods[i] = m]

\* the (file_id, page_number) keys of the pages the query can hit
Keys == {"p1", "p2"}

\* a hit of retriever m for key x (the SearchResult keeps the retriever's snippet)
Hit(m, x) == [key |-> x, from |-> m]

\* the key lists a retriever can return: no key twice
KeyLists ==
    {s \in UNION {[1..n -> Keys] : n \in 0..MaxHits} :
        \A i, j \in DOMAIN s : i # j => s[i] # s[j]}

RECURSIVE Prod(_)
Prod(n) == IF n = 0 THEN 1 ELSE (RRF_K + n) * Prod(n - 1)

\* common denominator of the terms weight / (k + rank + 1), rank < MaxHits + 1
Scale == Prod(MaxHits + 1)

\* weight / (k + rank + 1) for 0-based rank, in units of 1 / (10 * Scale)
RrfTerm(weight, rank) == weight * (Scale \div (RRF_K + rank + 1))

\* position (1-based) of x in the list s, 0 when absent
RECURSIVE IndexOf(_, _)
IndexOf(s, x) ==
    IF s = <<>> THEN 0
    ELSE IF Head(s).key = x THEN 1
    ELSE LET r == IndexOf(Tail(s), x) IN IF r = 0 THEN 0 ELSE r + 1

RECURSIVE SumList(_, _, _, _)
\* the inner loop (for rank, result in enumerate(results)): every position of
\* results that carries key x adds weight / (k + rank + 1) to scores[x]
SumList(results, weight, rank, x) ==
    IF results = <<>> THEN 0
    ELSE (IF Head(results).key = x THEN RrfTerm(weight, rank) ELSE 0)
         + SumList(Tail(results), weight, rank + 1, x)

RECURSIVE SumOver(_, _, _)
\* scores[x] after the outer loop over result_lists
SumOver(result_lists, weights, x) ==
    IF result_lists = <<>> THEN 0
    ELSE LET \* weights[list_idx] if list_idx < len(weights) else 1.0
             w == IF weights = <<>> THEN 10 ELSE Head(weights)
             rest == SumOver(Tail(result_lists),
                             IF weights = <<>> THEN <<>> ELSE Tail(weights), x)
         IN SumList(Head(result_lists), w, 0, x) + rest

\* the dict insertion order of scores/result_map: hits in first-seen order
RECURSIVE FirstSeen(_, _)
FirstSeen(flat, acc) ==
    IF flat = <<>> THEN acc
    ELSE FirstSeen(Tail(flat),
                   IF IndexOf(acc, Head(flat).key) = 0 THEN Append(acc, Head(flat)) ELSE acc)

RECURSIVE Flatten(_)
Flatten(result_lists) ==
    IF result_lists = <<>> THEN <<>> ELSE Head(result_lists) \o Flatten(Tail(result_lists))

\* first n elements
Take(s, n) == [i \in 1..Min(n, Len(s)) |-> s[i]]

\* _weighted_rrf_fusion(result_lists, weights, k, limit):
\* sorted(scores, key=score, reverse=True) is stable, so equal scores keep
\* the insertion order; result_map keeps the first-seen hit of each key
_weighted_rrf_fusion(result_lists, weights, limit) ==
    IF result_lists = <<>> THEN <<>>
    ELSE LET seen == FirstSeen(Flatten(result_lists), <<>>)
             wts  == Take(weights, Len(result_lists))
             score(i) == SumOver(result_lists, wts, seen[i].key)
             \* number of hits sorted before seen[i]
             before(i) == Cardinality({j \in DOMAIN seen :
                              score(j) > score(i) \/ (score(j) = score(i) /\ j < i)})
             sorted == [n \in DOMAIN seen |->
                          seen[CHOOSE i \in DOMAIN seen : before(i) = n - 1]]
         IN Take(sorted, limit)

Limit == 2

\* lines 784-791: what the call returns for the collected lists
ParallelResult(lists, at) ==
    IF lists = <<>>
    THEN [fused |-> <<>>, method |-> "none", weights |-> <<>>, at |-> at]
    ELSE LET weights == Take(Weights, Len(lists))
         IN [fused |-> _weighted_rrf_fusion(lists, weights, Limit),
             method |-> "hybrid_parallel", weights |-> weights, at |-> at]

NoRet == [fused |-> <<>>, method |-> "pending", weights |-> <<>>, at |-> 0]

StoreIdle ==
    /\ disk = [p \in Paths |-> NoFile]
    /\ db = EmptyDb /\ tx = EmptyDb /\ writer = NoWriter
    /\ vec = {} /\ run = [w \in Workers |-> IdleRun]

\* lines 761-767: the four tasks are submitted; the store and the query fix
\* what each retriever returns
InitRetrieve ==
    /\ StoreIdle
    /\ PureIdle
    /\ res \in [MethodSet -> KeyLists]
    /\ task = [m \in MethodSet |-> "running"]
    /\ collected = {}
    /\ all_results = <<>> /\ methods = <<>>
    /\ rpc = "gather" /\ clock = 0 /\ timedOut = FALSE
    /\ ret = NoRet

\* lines 770-780: a task completes before the deadline and as_completed
\* yields its future; a raised exception is logged, an empty list is skipped
future_completes(m, ok) ==
    /\ rpc = "gather" /\ task[m] = "running"
    /\ clock < GatherTimeout
    /\ task' = [task EXCEPT ![m] = IF ok THEN "done" ELSE "failed"]
    /\ collected' = collected \cup {m}
    /\ IF ok /\ res[m] # <<>>
       THEN /\ all_results' = Append(all_results, [i \in DOMAIN res[m] |-> Hit(m, res[m][i])])
            /\ methods' = Append(methods, m)
       ELSE UNCHANGED <<all_results, methods>>
    /\ UNCHANGED <<res, rpc, clock, timedOut, ret>>
    /\ UNCHANGED <<storeVars, pureVars, opsVars>>

\* time passes while the call waits (for futures, or in executor shutdown)
Tick ==
    /\ rpc \in {"gather", "shutdown"}
    /\ rpc = "gather" => clock < GatherTimeout
    /\ clock + TickSeconds <= MaxClock
    /\ clock' = clock + TickSeconds
    /\ UNCHANGED <<task, res, collected, all_results, methods, rpc, timedOut, ret>>
    /\ UNCHANGED <<storeVars, pureVars, opsVars>>

\* lines 781-782: as_completed raises TimeoutError with futures still pending
as_completed_timeout ==
    /\ rpc = "gather"
    /\ clock >= GatherTimeout
    /\ \E m \in MethodSet : task[m] = "running"
    /\ rpc' = "shutdown" /\ timedOut' = TRUE
    /\ UNCHANGED <<task, res, collected, all_results, methods, clock, ret>>
    /\ UNCHANGED <<storeVars, pureVars, opsVars>>

\* a task that was still running at the deadline finishes; nobody reads its result
future_completes_late(m) ==
    /\ rpc = "shutdown" /\ task[m] = "running"
    /\ task' = [task EXCEPT ![m] = "done"]
    /\ UNCHANGED <<res, collected, all_results, methods, rpc, clock, timedOut, ret>>
    /\ UNCHANGED <<storeVars, pureVars, opsVars>>

\* leaving `with ThreadPoolExecutor(...)`: __exit__ calls shutdown(wait=True),
\* which joins every worker thread; then lines 784-791
_parallel_hybrid_retrieve_returns ==
    /\ rpc \in {"gather", "shutdown"}
    /\ \A m \in MethodSet : task[m] # "running"
    /\ ret' = ParallelResult(all_results, clock)
    /\ rpc' = "returned"
    /\ UNCHANGED <<task, res, collected, all_results, methods, clock, timedOut>>
    /\ UNCHANGED <<storeVars, pureVars, opsVars>>

NextRetrieve ==
    \/ \E m \in MethodSet, ok \in BOOLEAN : future_completes(m, ok)
    \/ Tick
    \/ as_completed_timeout
    \/ \E m \in MethodSet : future_completes_late(m)
    \/ _parallel_hybrid_retrieve_returns

SpecRetrieve == InitRetrieve /\ [][NextRetrieve]_vars

(***************************************************************************)
(* Claims about the parallel retrieval                                     *)
(***************************************************************************)
KeysOf(hits) == [i \in DOMAIN hits |-> hits[i].key]

\* the lists of the tasks that completed with hits, in submission order
RECURSIVE InSubmissionOrder(_)
InSubmissionOrder(i) ==
    IF i > Len(Methods) THEN <<>>
    ELSE LET m == Methods[i]
         IN (IF m \in collected /\ task[m] = "done" /\ res[m] # <<>>
             THEN <<[j \in DOMAIN res[m] |-> Hit(m, res[m][j])]>> ELSE <<>>)
            \o InSubmissionOrder(i + 1)

\* C8: when all four tasks complete, the fused hit list does not depend on
\* the order in which they completed: it is the list obtained when they
\* complete in submission order.
C8_FusionOrderIndependent ==
    (rpc = "returned" /\ \A m \in MethodSet : m \in collected /\ task[m] = "done")
        => KeysOf(ret.fused) = KeysOf(ParallelResult(InSubmissionOrder(1), 0).fused)

\* C9: every fused list carries the weight of the retriever that produced it.
C9_OwnWeights ==
    rpc = "returned"
        => \A i \in DOMAIN methods : ret.weights[i] = OwnWeight(methods[i])

\* C10: when the gather timed out, the call returns at the deadline without
\* waiting for the unfinished tasks.
C10_ReturnsAtGatherTimeout ==
    (rpc = "returned" /\ timedOut) => ret.at <= GatherTimeout

(***************************************************************************)
(* Part III.  _weighted_rrf_fusion as a function of its arguments          *)
(***************************************************************************)
MaxLists == 2         \* number of result lists handed to one fusion

\* the lists of keys a retriever can hand over; a list built by
\* _chunk_results_to_search_results carries the key (file_id, page_start) of
\* every chunk, so two chunks that start on one page give the same key twice
HitLists == UNION {[1..n -> Keys] : n \in 0..MaxHits}

AsHits(i, keys) == [j \in DOMAIN keys |-> Hit(Methods[i], keys[j])]

ResultLists ==
    {[i \in DOMAIN ls |-> AsHits(i, ls[i])] :
        ls \in UNION {[1..n -> HitLists] : n \in 0..MaxLists}}

\* weights = [2.0, 1.0] of the wage-table fusion, in tenths
TableWeights == <<20, 10>>

\* the weights argument: None, the retriever weights or the table weights
WeightArgs ==
    {[given |-> FALSE, w |-> <<>>],
     [given |-> TRUE, w |-> Weights],
     [given |-> TRUE, w |-> TableWeights]}

\* if weights is None: weights = [1.5] + [1.0] * (len(result_lists) - 1)
DefaultWeights(n) == [i \in 1..n |-> IF i = 1 THEN 15 ELSE 10]

\* the weights the loop uses: weights[:len(result_lists)]
UsedWeights(arg, n) == Take(IF arg.given THEN arg.w ELSE DefaultWeights(n), n)

InitFusion ==
    /\ StoreIdle /\ RetrIdle
    /\ fallback = Off /\ answer = Off /\ synonyms = Off
    /\ repeated = Off /\ chunker = Off
    /\ \E ls \in ResultLists, a \in WeightArgs :
          fusion = [pc |-> "called", result_lists |-> ls, weights |-> a,
                    scores |-> [x \in Keys |-> 0], out |-> <<>>]
    /\ OpsIdle

\* one call of _weighted_rrf_fusion(result_lists, weights, k=60, limit)
weighted_rrf_fusion_call ==
    /\ fusion.pc = "called"
    /\ LET ls  == fusion.result_lists
           wts == UsedWeights(fusion.weights, Len(ls))
       IN fusion' = [fusion EXCEPT
                        !.pc = "returned",
                        !.scores = [x \in Keys |-> SumOver(ls, wts, x)],
                        !.out = _weighted_rrf_fusion(ls, wts, Limit)]
    /\ UNCHANGED <<opsVars, storeVars, retrVars, fallback, answer, synonyms, repeated, chunker>>

NextFusion == weighted_rrf_fusion_call

SpecFusion == InitFusion /\ [][NextFusion]_vars

\* the weight of list i: weights[i] when there is one, 1.0 otherwise
WeightOf(wts, i) == IF i <= Len(wts) THEN wts[i] ELSE 10

\* the lists of ls that contain key x
ListsWith(ls, x) == {i \in DOMAIN ls : IndexOf(ls[i], x) > 0}

RECURSIVE SumRanks(_, _, _, _)
\* sum over the lists i in S of weight_i / (k + r_i), r_i the 1-based rank of x in list i
SumRanks(S, ls, wts, x) ==
    IF S = {} THEN 0
    ELSE LET i == CHOOSE j \in S : TRUE
         IN RrfTerm(WeightOf(wts, i), IndexOf(ls[i], x) - 1)
            + SumRanks(S \ {i}, ls, wts, x)

\* C11: the fused score of a key is the sum, over the lists that contain it,
\* of weight_i / (k + r_i) with r_i its 1-based rank in list i; a key of one
\* list only, at rank r with weight w, scores w / (k + r).
C11_FusedScore ==
    fusion.pc = "returned"
        => \A x \in Keys :
              LET ls  == fusion.result_lists
                  wts == UsedWeights(fusion.weights, Len(ls))
              IN fusion.scores[x] = SumRanks(ListsWith(ls, x), ls, wts, x)

(***************************************************************************)
(* Part IV.  _retrieve_with_fallback                                       *)
(***************************************************************************)
\* words of the questions and of the indexed text
Terms == {"t1", "t2", "t3"}

\* the file of each page key: p1 is a page of file 1, p2 of file 2
FileOf(x) == IF x = "p1" THEN 1 ELSE 2

\* file_id = None
NoScope == 0

\* ORDER BY rank, for the one ranking the model keeps
OrderedKeys == <<"p1", "p2">>

KeysIn(S) == SelectSeq(OrderedKeys, LAMBDA x : x \in S)

HitsOf(m, keys) == [j \in DOMAIN keys |-> Hit(m, keys[j])]

\* build_fts_query: the terms joined by AND or by OR
Match(text, terms, mode) ==
    IF mode = "and" THEN terms \subseteq text ELSE terms \cap text # {}

\* execute_search / execute_chunk_search: MATCH ? [AND f.id = ?] ORDER BY rank LIMIT ?
execute_search(idx, terms, limit, mode, file_id) ==
    Take(KeysIn({x \in Keys :
                    /\ file_id = NoScope \/ FileOf(x) = file_id
                    /\ Match(idx[x], terms, mode)}), limit)

\* search_pages and search_chunks share this body
search_pages(idx, terms, limit, mode, file_id, fallback_to_or) ==
    IF terms = {} THEN <<>>
    ELSE LET results == execute_search(idx, terms, limit, mode, file_id)
         IN IF results = <<>> /\ mode = "and" /\ fallback_to_or /\ Cardinality(terms) > 1
            THEN execute_search(idx, terms, limit, "or", file_id)
            ELSE results

\* expand_query: the query itself, then a variant with t1 replaced by its synonym t3
expand_query(terms, syn) ==
    IF syn /\ "t1" \in terms THEN <<terms, (terms \ {"t1"}) \cup {"t3"}>> ELSE <<terms>>

\* the index of the chunks: one chunk per page when the documents were chunked
ChunkIdx(f) == [x \in Keys |-> IF f.chunked THEN f.pages[x] ELSE {}]

Scoped(S, file_id) == {x \in S : file_id = NoScope \/ FileOf(x) = file_id}

\* a recorded call of search_pages
PageCall(terms, mode, file_id, by) ==
    [mode |-> mode, fallback_to_or |-> FALSE, terms |-> terms, file_id |-> file_id, by |-> by]

\* the stages that follow the primary path, by the method tag they return
UnscopedLadderOrFirst ==
    <<"semantic", "chunk_and", "chunk_or", "fts_or", "fts_and", "fts_synonym",
      "sql_like", "vector", "hybrid">>
UnscopedLadder ==
    <<"semantic", "chunk_and", "chunk_or", "fts_and", "fts_or", "fts_synonym",
      "sql_like", "vector", "hybrid">>

\* lines 853-903: the stages of a document-scoped question
ScopedLadder ==
    <<"semantic_scoped", "chunk_scoped_and", "chunk_scoped_or", "fts_scoped_and",
      "fts_scoped_or", "fts_scoped_synonym", "vector_scoped", "sql_like_scoped">>

\* the scoped stages fall through to the unscoped ones (no return after line 903)
Ladder(f) == IF f.scoped # NoScope THEN ScopedLadder \o UnscopedLadder ELSE UnscopedLadder

\* one page search of the ladder: its hits and the recorded call
PageStage(f, terms, limit, mode, file_id, by) ==
    [hits  |-> HitsOf("fts", search_pages(f.pages, terms, limit, mode, file_id, FALSE)),
     calls |-> <<PageCall(terms, mode, file_id, by)>>]

ChunkStage(f, terms, mode, file_id) ==
    [hits  |-> HitsOf("chunk", search_pages(ChunkIdx(f), terms, Limit, mode, file_id, FALSE)),
     calls |-> <<>>]

SetStage(m, S, file_id) ==
    [hits |-> HitsOf(m, Take(KeysIn(Scoped(S, file_id)), Limit)), calls |-> <<>>]

\* for expanded in expanded_queries[1:]: the first variant with hits returns
SynonymStage(f, terms, file_id, by) ==
    LET expanded == expand_query(terms, f.syn)
    IN IF Len(expanded) > 1
       THEN PageStage(f, expanded[2], Limit, "or", file_id, by)
       ELSE [hits |-> <<>>, calls |-> <<>>]

\* lines 960-971: page search in OR mode and vector search with limit * 2, merged
HybridStage(f) ==
    LET fts == PageStage(f, f.question, 2 * Limit, "or", NoScope, "hybrid")
        vector == HitsOf("vector", Take(KeysIn(f.tfidf), 2 * Limit))
    IN [hits  |-> _weighted_rrf_fusion(<<fts.hits, vector>>, <<10, 10>>, Limit),
        calls |-> fts.calls]

\* what stage s finds for the call f, and the page searches it issues
StageRun(f, s) ==
    CASE s = "semantic_scoped"    -> SetStage("semantic", f.sem, f.scoped)
      [] s = "chunk_scoped_and"   -> ChunkStage(f, f.topic, "and", f.scoped)
      [] s = "chunk_scoped_or"    -> ChunkStage(f, f.topic, "or", f.scoped)
      [] s = "fts_scoped_and"     -> PageStage(f, f.topic, Limit, "and", f.scoped, s)
      [] s = "fts_scoped_or"      -> PageStage(f, f.topic, Limit, "or", f.scoped, s)
      [] s = "fts_scoped_synonym" -> SynonymStage(f, f.topic, f.scoped, s)
      [] s = "vector_scoped"      -> SetStage("vector", f.tfidf, f.scoped)
      [] s = "sql_like_scoped"    -> SetStage("like", f.like, f.scoped)
      [] s = "semantic"           -> SetStage("semantic", f.sem, NoScope)
      [] s = "chunk_and"          -> ChunkStage(f, f.question, "and", NoScope)
      [] s = "chunk_or"           -> ChunkStage(f, f.question, "or", NoScope)
      [] s = "fts_and"            -> PageStage(f, f.question, Limit, "and", NoScope, s)
      [] s = "fts_or"             -> PageStage(f, f.question, Limit, "or", NoScope, s)
      [] s = "fts_synonym"        -> SynonymStage(f, f.question, NoScope, s)
      [] s = "sql_like"           -> SetStage("like", f.like, NoScope)
      [] s = "vector"             -> SetStage("vector", f.tfidf, NoScope)
      [] s = "hybrid"             -> HybridStage(f)

\* lines 737-755: what each of the four parallel tasks returns
ParallelTask(f, m) ==
    CASE m = "semantic" -> HitsOf(m, Take(KeysIn(f.sem), 2 * Limit))
      [] m = "chunk"    ->
            HitsOf(m, search_pages(ChunkIdx(f), f.question, 2 * Limit, "or", NoScope, FALSE))
      [] m = "fts"      ->
            HitsOf(m, search_pages(f.pages, f.question, 2 * Limit, "or", NoScope, FALSE))
      [] m = "expanded" ->
            LET expanded == expand_query(f.question, f.syn)
            IN IF Len(expanded) > 1
               THEN HitsOf(m, search_pages(f.pages, expanded[2], Limit, "or", NoScope, FALSE))
               ELSE <<>>

\* the page searches the parallel tasks issue
ParallelCalls(f) ==
    LET expanded == expand_query(f.question, f.syn)
    IN <<PageCall(f.question, "or", NoScope, "parallel")>>
       \o (IF Len(expanded) > 1
           THEN <<PageCall(expanded[2], "or", NoScope, "parallel")>> ELSE <<>>)

\* the orders in which the futures of the tasks in S can complete
Orders(S) ==
    {o \in [1..Cardinality(S) -> S] : \A i, j \in DOMAIN o : i # j => o[i] # o[j]}

\* the questions: two without a document reference and one that names file 1,
\* for which detect_document_reference strips the name (t2) from the topic
Questions ==
    {[scoped |-> NoScope, question |-> {"t1"}, topic |-> {"t1"}],
     [scoped |-> NoScope, question |-> {"t1", "t2"}, topic |-> {"t1", "t2"}],
     [scoped |-> 1, question |-> {"t1", "t2"}, topic |-> {"t1"}]}

InitFallback ==
    /\ StoreIdle /\ RetrIdle
    /\ fusion = Off /\ answer = Off /\ synonyms = Off
    /\ repeated = Off /\ chunker = Off
    /\ \E q \in Questions, pages \in [Keys -> SUBSET Terms], chunked, syn \in BOOLEAN,
          sem \in SUBSET Keys, like, tfidf \in {{}, {"p1"}}, wage \in {<<>>, <<"p2">>} :
          fallback = [pc |-> "called",
                      scoped |-> q.scoped, question |-> q.question, topic |-> q.topic,
                      pages |-> pages, chunked |-> chunked, syn |-> syn, sem |-> sem,
                      like |-> like, tfidf |-> tfidf, wage |-> wage,
                      stage |-> 0, calls |-> <<>>, results |-> <<>>, method |-> "pending"]
    /\ OpsIdle

\* line 836: scoped_file_id, topic_query = detect_document_reference(question)
fallback_detect ==
    /\ fallback.pc = "called"
    /\ fallback' = IF fallback.scoped = NoScope
                   THEN [fallback EXCEPT !.pc = "primary"]
                   ELSE [fallback EXCEPT !.pc = "ladder", !.stage = 1]
    /\ UNCHANGED <<opsVars, storeVars, retrVars, fusion, answer, synonyms, repeated, chunker>>

\* lines 839-851: the parallel hybrid retrieval; the tasks of lost raise or
\* miss the gather, the others complete in the order o
fallback_primary ==
    /\ fallback.pc = "primary"
    /\ \E lost \in SUBSET MethodSet :
         LET alive == {m \in MethodSet \ lost : ParallelTask(fallback, m) # <<>>}
         IN \E o \in Orders(alive) :
              LET par    == ParallelResult([i \in DOMAIN o |-> ParallelTask(fallback, o[i])], 0)
                  tables == HitsOf("table", fallback.wage)
                  calls  == fallback.calls \o ParallelCalls(fallback)
              IN fallback' =
                   IF par.fused = <<>>
                   THEN [fallback EXCEPT !.pc = "ladder", !.stage = 1, !.calls = calls]
                   ELSE IF tables # <<>>
                   THEN [fallback EXCEPT
                           !.pc = "returned", !.calls = calls,
                           !.results = _weighted_rrf_fusion(<<tables, par.fused>>,
                                                            TableWeights, Limit),
                           !.method = "hybrid_parallel+tables"]
                   ELSE [fallback EXCEPT
                           !.pc = "returned", !.calls = calls,
                           !.results = par.fused, !.method = par.method]
    /\ UNCHANGED <<opsVars, storeVars, retrVars, fusion, answer, synonyms, repeated, chunker>>

\* one stage of the ladder: return its hits under its tag, or go on; after
\* the last stage return [], "none"
fallback_stage ==
    /\ fallback.pc = "ladder"
    /\ LET s == Ladder(fallback)[fallback.stage]
           r == StageRun(fallback, s)
           calls == fallback.calls \o r.calls
       IN fallback' =
            IF r.hits # <<>>
            THEN [fallback EXCEPT !.pc = "returned", !.calls = calls,
                                  !.results = r.hits, !.method = s]
            ELSE IF fallback.stage = Len(Ladder(fallback))
            THEN [fallback EXCEPT !.pc = "returned", !.calls = calls, !.method = "none"]
            ELSE [fallback EXCEPT !.stage = @ + 1, !.calls = calls]
    /\ UNCHANGED <<opsVars, storeVars, retrVars, fusion, answer, synonyms, repeated, chunker>>

NextFallback == fallback_detect \/ fallback_primary \/ fallback_stage

SpecFallback == InitFallback /\ [][NextFallback]_vars

\* no document reference, and semantic and chunk retrieval return nothing
NoSemanticNoChunk ==
    /\ fallback.scoped = NoScope
    /\ fallback.sem = {}
    /\ search_pages(ChunkIdx(fallback), fallback.question, Limit, "or", NoScope, FALSE) = <<>>

AndHits == HitsOf("fts", search_pages(fallback.pages, fallback.question, Limit,
                                      "and", NoScope, FALSE))
OrHits  == HitsOf("fts", search_pages(fallback.pages, fallback.question, Limit,
                                      "or", NoScope, FALSE))

\* the page searches issued after the parallel retrieval
LadderCalls == SelectSeq(fallback.calls, LAMBDA c : c.by # "parallel")

\* the AND-then-OR discipline over a sequence cs of page searches
AndBeforeOr(cs) ==
    /\ cs # <<>> /\ cs[1].mode = "and" /\ ~cs[1].fallback_to_or
    /\ AndHits # <<>>
         => fallback.results = AndHits /\ fallback.method = "fts_and" /\ Len(cs) = 1
    /\ AndHits = <<>>
         => /\ Len(cs) >= 2 /\ cs[2].mode = "or"
            /\ OrHits # <<>> => fallback.results = OrHits /\ fallback.method = "fts_or"

MaxSources == 25      \* search results handed to the packer (MAX_RETRIEVAL_RESULTS)
MaxReply   == 2       \* tokens of the model's reply

MAX_CONTEXT_BUDGET     == 200000
MAX_CONTEXT_PER_SOURCE == 8000
SeparatorLen    == 5     \* "\n---\n"
PageHeaderLen   == 30    \* "[Source i] <filename>, Page <n>:\n" and the "\n" after the text
ChunkHeaderLen  == 60    \* the same with the PARENT / HEADING lines
ShortAnswer     == 200   \* len(answer_text) < 200

\* a text: its length, the length w of a word with its trailing space
\* (0: no space at all) and the length s of a sentence with its ". " (0: none)
Texts ==
    {[len |-> 120,   w |-> 6, s |-> 60],
     [len |-> 20000, w |-> 0, s |-> 0],
     [len |-> 20000, w |-> 6, s |-> 0],
     [len |-> 20000, w |-> 6, s |-> 150]}

NoText == [len |-> 0, w |-> 0, s |-> 0]

\* _truncate_at_sentence(text, max_chars): the length of what it returns
_truncate_at_sentence(t, max_chars) ==
    IF t.len <= max_chars THEN t.len
    ELSE LET lo == IF max_chars - 200 > 0 THEN max_chars - 200 ELSE 0
             \* index of the last "." that is followed by a space, in text[:max_chars]
             dot == IF t.s = 0 THEN -1 ELSE ((max_chars + 1) \div t.s) * t.s - 2
             \* truncated.rfind(' ')
             last_space == IF t.w = 0 THEN -1 ELSE (max_chars \div t.w) * t.w - 1
         IN IF dot > lo THEN dot + 1
            ELSE IF 10 * last_space > 8 * max_chars THEN last_space
            ELSE max_chars

\* len(part) of the block of hit h that carries n characters of text
PartLen(h, n) == (IF h.ctx THEN ChunkHeaderLen ELSE PageHeaderLen) + n

NoPack == [total |-> 0, parts |-> <<>>, citations |-> <<>>, truncated |-> FALSE]

RECURSIVE Pack(_, _, _)
\* lines 1061-1144: for i, result in enumerate(search_results)
Pack(hits, i, st) ==
    IF i > Len(hits) THEN st
    ELSE IF st.total >= MAX_CONTEXT_BUDGET THEN [st EXCEPT !.truncated = TRUE]
    ELSE LET remaining_budget == MAX_CONTEXT_BUDGET - st.total
             source_limit == Min(MAX_CONTEXT_PER_SOURCE, remaining_budget)
             h == hits[i]
             n == _truncate_at_sentence(h.text, source_limit)
         IN IF h.ctx \/ h.text.len > 0
            THEN Pack(hits, i + 1,
                      [st EXCEPT
                         !.total = @ + PartLen(h, n),
                         !.parts = Append(@, [label |-> i, hit |-> i, len |-> PartLen(h, n)]),
                         !.citations = Append(@, i)])
            \* get_page_text returned nothing: no block, no citation
            ELSE Pack(hits, i + 1, st)

RECURSIVE SumLen(_)
SumLen(parts) == IF parts = <<>> THEN 0 ELSE Head(parts).len + SumLen(Tail(parts))

\* len("\n---\n".join(context_parts))
ContextLen(parts) ==
    IF parts = <<>> THEN 0 ELSE SumLen(parts) + SeparatorLen * (Len(parts) - 1)

\* the pieces a reply of the model is made of
ReplyTokens ==
    {"Not found in the documents provided.",  \* one of no_evidence_phrases
     "[Source 1]", "[Source 2]",              \* bracketed citations
     "Source 1",                              \* a source named without brackets
     "<filename 1>, page <n 1>",              \* file name and page of the first search result
     "<a paragraph>"}                         \* 200 characters of other text

Replies == UNION {[1..n -> ReplyTokens] : n \in 0..MaxReply}

TokenLen(t) ==
    CASE t = "<a paragraph>" -> ShortAnswer
      [] t = "Not found in the documents provided." -> 36
      [] t = "Source 1" -> 8
      [] OTHER -> 10

RECURSIVE ReplyLen(_)
ReplyLen(r) == IF r = <<>> THEN 0 ELSE TokenLen(Head(r)) + ReplyLen(Tail(r))

NotFoundPhrase(t) == t = "Not found in the documents provided."

\* re.search(r'\[source\s*\d+\]', answer_lower)
has_citations(r) == \E i \in DOMAIN r : r[i] \in {"[Source 1]", "[Source 2]"}

\* (starts_with_not_found or is_short_not_found) and not has_citations
NoEvidence(r) ==
    /\ \/ r # <<>> /\ NotFoundPhrase(r[1])
       \/ ReplyLen(r) < ShortAnswer /\ \E i \in DOMAIN r : NotFoundPhrase(r[i])
    /\ ~has_citations(r)

\* lines 1245-1260: is the citation at position source_num, made for search
\* result hit, taken as cited by the reply r
Cited(r, source_num, hit) ==
    \E i \in DOMAIN r :
        \* "[Source n]" / "Source n" / "source n" is a substring of the answer
        \/ source_num = 1 /\ r[i] \in {"[Source 1]", "Source 1"}
        \/ source_num = 2 /\ r[i] = "[Source 2]"
        \* the file name and "page <n>" of the citation are both mentioned
        \/ hit = 1 /\ r[i] = "<filename 1>, page <n 1>"

\* cited_sources, then the top 3 when nothing is cited and evidence was found
CitedSources(r, citations) ==
    LET cited == SelectSeq([i \in DOMAIN citations |-> [n |-> i, hit |-> citations[i]]],
                           LAMBDA c : Cited(r, c.n, c.hit))
    IN IF cited = <<>> /\ ~NoEvidence(r)
       THEN [i \in 1..Min(3, Len(citations)) |-> [n |-> i, hit |-> citations[i]]]
       ELSE cited

\* a QAResponse built before or instead of the call of the model
EarlyResponse(text) == [answer |-> <<text>>, citations |-> <<>>, no_evidence |-> TRUE]

\* the search results: n hits with the same kind of text, of which hit gap
\* (0: none) is a page without text and without chunk context
Hits(n, ctx, text, gap) ==
    [i \in 1..n |-> IF i = gap THEN [ctx |-> FALSE, text |-> NoText]
                    ELSE [ctx |-> ctx, text |-> text]]

InitAnswer ==
    /\ StoreIdle /\ RetrIdle
    /\ fusion = Off /\ fallback = Off /\ synonyms = Off
    /\ repeated = Off /\ chunker = Off
    /\ \E n \in 0..MaxSources, ctx, key \in BOOLEAN, text \in Texts, gap \in 0..2 :
          /\ gap <= n
          /\ answer = [pc |-> "called", api_key |-> key,
                       search_results |-> Hits(n, ctx, text, gap),
                       pack |-> NoPack, context_len |-> 0,
                       response |-> EarlyResponse("pending")]
    /\ OpsIdle

\* lines 993-1157: the early returns, then the packing of the context
answer_pack ==
    /\ answer.pc = "called"
    /\ LET pack == Pack(answer.search_results, 1, NoPack)
       IN answer' =
            IF ~answer.api_key
            THEN [answer EXCEPT !.pc = "returned",
                                !.response = EarlyResponse("API key not configured.")]
            ELSE IF answer.search_results = <<>>
            THEN [answer EXCEPT !.pc = "returned",
                                !.response = EarlyResponse("Not found in the documents provided.")]
            ELSE IF pack.parts = <<>>
            THEN [answer EXCEPT !.pc = "returned", !.pack = pack,
                                !.response = EarlyResponse("Not found in the documents provided.")]
            ELSE [answer EXCEPT !.pc = "prompted", !.pack = pack,
                                !.context_len = ContextLen(pack.parts)]
    /\ UNCHANGED <<opsVars, storeVars, retrVars, fusion, fallback, synonyms, repeated, chunker>>

\* lines 1205-1294: the model replies r and the QAResponse is built from it
answer_reply(r) ==
    /\ answer.pc = "prompted"
    /\ answer' = [answer EXCEPT
                    !.pc = "returned",
                    !.response = [answer |-> r,
                                  citations |-> CitedSources(r, answer.pack.citations),
                                  no_evidence |-> NoEvidence(r)]]
    /\ UNCHANGED <<opsVars, storeVars, retrVars, fusion, fallback, synonyms, repeated, chunker>>

\* lines 1296-1313: the call of the model raises
answer_llm_error ==
    /\ answer.pc = "prompted"
    /\ answer' = [answer EXCEPT !.pc = "returned",
                                !.response = EarlyResponse("An error occurred.")]
    /\ UNCHANGED <<opsVars, storeVars, retrVars, fusion, fallback, synonyms, repeated, chunker>>

NextAnswer ==
    \/ answer_pack
    \/ \E r \in Replies : answer_reply(r)
    \/ answer_llm_error

SpecAnswer == InitAnswer /\ [][NextAnswer]_vars

\* C13: a response with no_evidence = true carries no citations, whatever
\* the model replied.
C13_NoEvidenceNoCitations ==
    (answer.pc = "returned" /\ answer.response.no_evidence)
        => answer.response.citations = <<>>

\* C14: the context packed into the prompt is never longer than
\* MAX_CONTEXT_BUDGET, for any number and size of hits.
C14_ContextWithinBudget ==
    answer.pc \in {"prompted", "returned"} => answer.context_len <= MAX_CONTEXT_BUDGET

(***************************************************************************)
(* Part VI.  The synonym store and its module caches (synonyms.py)         *)
(***************************************************************************)
MaxItems == 2         \* entries of a dictionary handed to a save

\* the threads that can run a handler
Threads == {"t1", "t2"}
NoLock == "none"

\* str.lower() on the strings of the model
lower(s) == CASE s = "Leave" -> "leave" [] s = "PTO" -> "pto" [] OTHER -> s

\* not s.strip()
IsBlank(s) == s = " "

\* len(term)
TermLen(s) == CASE s \in {"pto", "PTO", "off"} -> 3 [] s = " " -> 1 [] s = "tour" -> 4 [] OTHER -> 5

\* the terms of the model, longest first: sorted(_REVERSE_MAP.keys(), key=len, reverse=True)
TermsByLen == <<"shift", "leave", "bonus", "tour", "pto", "off">>

\* a dict is the sequence of its items [k, v], in insertion order, keys distinct
DictKeys(d) == {d[i].k : i \in DOMAIN d}
Has(d, k) == k \in DictKeys(d)
Get(d, k) == d[CHOOSE i \in DOMAIN d : d[i].k = k].v
Set(d, k, v) ==
    IF Has(d, k) THEN [i \in DOMAIN d |-> IF d[i].k = k THEN [k |-> k, v |-> v] ELSE d[i]]
    ELSE Append(d, [k |-> k, v |-> v])
Del(d, k) == SelectSeq(d, LAMBDA it : it.k # k)

\* the dict as a function, for comparisons that ignore the order of the items
AsFunction(d) == [k \in DictKeys(d) |-> Get(d, k)]

BUILTIN_SYNONYMS == <<[k |-> "shift", v |-> <<"tour">>]>>

\* json.dumps / json.loads of a list of strings
json_dumps(l) == [json |-> l]
json_loads(j) == j.json

\* the dictionaries a save can be called with
CanonicalArgs == {"leave", "Leave", "bonus"}
SynonymArgs   == {<<>>, <<"pto">>, <<"PTO">>, <<" ">>, <<"pto", "off">>}
Dicts ==
    {d \in UNION {[1..n -> [k : CanonicalArgs, v : SynonymArgs]] : n \in 0..MaxItems} :
        \A i, j \in DOMAIN d : i # j => d[i].k # d[j].k}

\* [s.lower() for s in syns if s.strip()]
syns_lower(syns) ==
    LET kept == SelectSeq(syns, LAMBDA x : ~IsBlank(x))
    IN [i \in DOMAIN kept |-> lower(kept[i])]

\* if replace: DELETE FROM custom_synonyms
KeepTable(replace, table) == table
ClearedTable(replace, table) == IF replace THEN <<>> ELSE table

RECURSIVE Upserts(_, _)
\* the loop of INSERT ... ON CONFLICT(canonical_term) DO UPDATE over synonyms.items()
Upserts(table, items) ==
    IF items = <<>> THEN table
    ELSE LET it == Head(items)
             l  == syns_lower(it.v)
         IN Upserts(IF l = <<>> THEN table ELSE Set(table, lower(it.k), json_dumps(l)),
                    Tail(items))

\* get_custom_synonyms_from_db: result[row.canonical_term.lower()] = json.loads(row.synonyms)
RECURSIVE LoadRows(_, _)
LoadRows(rows, result) ==
    IF rows = <<>> THEN result
    ELSE LoadRows(Tail(rows), Set(result, lower(Head(rows).k), json_loads(Head(rows).v)))

get_custom_synonyms_from_db(table) == LoadRows(table, <<>>)

RECURSIVE Extend(_, _)
\* for syn in syns: if syn not in merged[canonical]: merged[canonical].append(syn)
Extend(l, syns) ==
    IF syns = <<>> THEN l
    ELSE Extend(IF \E i \in DOMAIN l : l[i] = Head(syns) THEN l ELSE Append(l, Head(syns)),
                Tail(syns))

RECURSIVE merge_synonyms(_, _)
merge_synonyms(base, custom) ==
    IF custom = <<>> THEN base
    ELSE LET it == Head(custom)
         IN merge_synonyms(IF Has(base, it.k)
                           THEN Set(base, it.k, Extend(Get(base, it.k), it.v))
                           ELSE Append(base, it),
                           Tail(custom))

\* _REVERSE_MAP is a function from terms to canonical terms
EmptyMap == [x \in {} |-> ""]

\* _REVERSE_MAP[canonical.lower()] = canonical.lower(), and the same for every synonym
AddEntries(rev, canonical, syns) ==
    LET ks == {lower(canonical)} \cup {lower(syns[i]) : i \in DOMAIN syns}
    IN [x \in DOMAIN rev \cup ks |-> IF x \in ks THEN lower(canonical) ELSE rev[x]]

RECURSIVE FullReverse(_, _)
\* the reverse map after the loop over all the items of a dictionary
FullReverse(items, rev) ==
    IF items = <<>> THEN rev
    ELSE FullReverse(Tail(items), AddEntries(rev, Head(items).k, Head(items).v))

\* _build_reverse_map(): fills the map from BUILTIN_SYNONYMS when it is empty
_build_reverse_map(rev) ==
    IF DOMAIN rev # {} THEN rev ELSE FullReverse(BUILTIN_SYNONYMS, rev)

\* get_synonyms(term): looks the term up in BUILTIN_SYNONYMS only
get_synonyms(term, rev) ==
    IF Has(BUILTIN_SYNONYMS, term) THEN <<term>> \o Get(BUILTIN_SYNONYMS, term)
    ELSE IF term \in DOMAIN rev /\ Has(BUILTIN_SYNONYMS, rev[term])
    THEN <<rev[term]>> \o Get(BUILTIN_SYNONYMS, rev[term])
    ELSE <<term>>

\* the queries: sequences of words
Queries == {<<"leave", "policy">>, <<"shift", "policy">>}

\* term in query_lower
Contains(q, term) == \E i \in DOMAIN q : q[i] = term

\* re.sub(re.escape(term), syn, query_lower)
Substitute(q, term, syn) == [i \in DOMAIN q |-> IF q[i] = term THEN syn ELSE q[i]]

RECURSIVE AddVariants(_, _, _, _)
\* for syn in synonyms: a variant that is new and differs from the query is appended
AddVariants(q, term, syns, expanded) ==
    IF syns = <<>> THEN expanded
    ELSE LET variant == Substitute(q, term, Head(syns))
             new == /\ Head(syns) # term /\ variant # q
                    /\ ~\E i \in DOMAIN expanded : expanded[i] = variant
         IN AddVariants(q, term, Tail(syns),
                        IF new THEN Append(expanded, variant) ELSE expanded)

RECURSIVE ExpandTerms(_, _, _, _)
\* for term in sorted_terms: if term in query_lower and len(term) > 3
ExpandTerms(q, terms, rev, expanded) ==
    IF terms = <<>> THEN expanded
    ELSE LET term == Head(terms)
         IN ExpandTerms(q, Tail(terms), rev,
                        IF Contains(q, term) /\ TermLen(term) > 3
                        THEN AddVariants(q, term, get_synonyms(term, rev), expanded)
                        ELSE expanded)

\* expand_query(query) over the reverse map rev, after _build_reverse_map()
ExpandedQueries(q, rev) ==
    ExpandTerms(q, SelectSeq(TermsByLen, LAMBDA x : x \in DOMAIN rev), rev, <<q>>)

\* a thread that runs no handler
IdleThread ==
    [pc |-> "idle", op |-> "none", X |-> <<>>, replace |-> FALSE, term |-> "",
     query |-> <<>>, tx |-> <<>>, old |-> <<>>, deleted |-> FALSE, i |-> 0,
     start |-> EmptyMap, after |-> FALSE]

NoExpansion ==
    [done |-> FALSE, query |-> <<>>, seen |-> EmptyMap, start |-> EmptyMap,
     current |-> EmptyMap, variants |-> <<>>, custom |-> <<>>, after_write |-> FALSE]

\* the tables a fresh process can find in app.db
InitTables == {<<>>, <<[k |-> "leave", v |-> json_dumps(<<"pto">>)]>>}

InitSynonyms ==
    /\ StoreIdle /\ RetrIdle
    /\ fusion = Off /\ fallback = Off /\ answer = Off
    /\ repeated = Off /\ chunker = Off
    /\ \E table \in InitTables :
          synonyms = [db |-> table, lock |-> NoLock,
                      _CUSTOM_SYNONYMS |-> <<>>, _MERGED_SYNONYMS |-> <<>>,
                      _REVERSE_MAP |-> EmptyMap,
                      th |-> [t \in Threads |-> IdleThread],
                      written |-> FALSE,
                      complete |-> FullReverse(BUILTIN_SYNONYMS, EmptyMap),
                      expansion |-> NoExpansion]
    /\ OpsIdle

\* every handler that touches the synonyms is an async route that calls the
\* service synchronously, and the worker that runs expand_query for a
\* question lives only while the event-loop thread is blocked in that
\* question's handler: a handler starts only when no other one is under way
RunnableAlways(t) == TRUE
Runnable(t) == \A u \in Threads \ {t} : synonyms.th[u].pc = "idle"

SetThread(t, r) == [synonyms.th EXCEPT ![t] = r]

\* save_custom_synonyms_to_db(X, replace), lines 381-401: the statements of
\* the transaction, executed under SQLite's write lock
save_custom_synonyms_to_db(t, X, replace) ==
    /\ synonyms.th[t].pc = "idle" /\ Runnable(t) /\ synonyms.lock = NoLock
    /\ synonyms' = [synonyms EXCEPT
          !.lock = t,
          !.expansion = NoExpansion,
          !.th = SetThread(t, [IdleThread EXCEPT
                    !.pc = "commit", !.op = "save", !.X = X, !.replace = replace,
                    !.old = synonyms.db,
                    !.tx = Upserts(ClearedTable(replace, synonyms.db), X)])]
    /\ UNCHANGED <<opsVars, storeVars, retrVars, fusion, fallback, answer, repeated, chunker>>

\* delete_custom_synonym(term), lines 422-427
delete_custom_synonym(t, term) ==
    /\ synonyms.th[t].pc = "idle" /\ Runnable(t) /\ synonyms.lock = NoLock
    /\ synonyms' = [synonyms EXCEPT
          !.lock = t,
          !.expansion = NoExpansion,
          !.th = SetThread(t, [IdleThread EXCEPT
                    !.pc = "commit", !.op = "delete", !.term = term,
                    !.old = synonyms.db,
                    !.deleted = Has(synonyms.db, lower(term)),
                    !.tx = Del(synonyms.db, lower(term))])]
    /\ UNCHANGED <<opsVars, storeVars, retrVars, fusion, fallback, answer, repeated, chunker>>

\* the exit of "with get_db() as conn": commit, the write lock is released;
\* a delete that removed nothing returns without a reload
synonyms_commit(t) ==
    /\ synonyms.th[t].pc = "commit"
    /\ LET me == synonyms.th[t]
       IN synonyms' = [synonyms EXCEPT
             !.db = me.tx, !.lock = NoLock,
             !.th = SetThread(t, IF me.op = "save" \/ me.deleted
                                 THEN [me EXCEPT !.pc = "reload"] ELSE IdleThread)]
    /\ UNCHANGED <<opsVars, storeVars, retrVars, fusion, fallback, answer, repeated, chunker>>

\* reload_synonyms, line 445: _CUSTOM_SYNONYMS = get_custom_synonyms_from_db()
reload_load(t) ==
    /\ synonyms.th[t].pc = "reload"
    /\ synonyms' = [synonyms EXCEPT
          !._CUSTOM_SYNONYMS = get_custom_synonyms_from_db(synonyms.db),
          !.th = SetThread(t, [synonyms.th[t] EXCEPT !.pc = "merge"])]
    /\ UNCHANGED <<opsVars, storeVars, retrVars, fusion, fallback, answer, repeated, chunker>>

\* line 448: _MERGED_SYNONYMS = merge_synonyms(BUILTIN_SYNONYMS, _CUSTOM_SYNONYMS)
reload_merge(t) ==
    /\ synonyms.th[t].pc = "merge"
    /\ synonyms' = [synonyms EXCEPT
          !._MERGED_SYNONYMS = merge_synonyms(BUILTIN_SYNONYMS, synonyms._CUSTOM_SYNONYMS),
          !.th = SetThread(t, [synonyms.th[t] EXCEPT !.pc = "clear"])]
    /\ UNCHANGED <<opsVars, storeVars, retrVars, fusion, fallback, answer, repeated, chunker>>

\* line 451: _REVERSE_MAP = {}
reload_clear(t) ==
    /\ synonyms.th[t].pc = "clear"
    /\ synonyms' = [synonyms EXCEPT
          !._REVERSE_MAP = EmptyMap,
          !.th = SetThread(t, [synonyms.th[t] EXCEPT !.pc = "fill", !.i = 1])]
    /\ UNCHANGED <<opsVars, storeVars, retrVars, fusion, fallback, answer, repeated, chunker>>

\* lines 452-457: one iteration of the loop over _MERGED_SYNONYMS.items(),
\* or the return after the last one
reload_fill(t) ==
    /\ synonyms.th[t].pc = "fill"
    /\ LET me == synonyms.th[t]
           m  == synonyms._MERGED_SYNONYMS
       IN synonyms' =
            IF me.i <= Len(m)
            THEN [synonyms EXCEPT
                    !._REVERSE_MAP = AddEntries(@, m[me.i].k, m[me.i].v),
                    !.th = SetThread(t, [me EXCEPT !.i = @ + 1])]
            ELSE [synonyms EXCEPT
                    !.written = TRUE,
                    !.complete = synonyms._REVERSE_MAP,
                    !.th = SetThread(t, IdleThread)]
    /\ UNCHANGED <<opsVars, storeVars, retrVars, fusion, fallback, answer, repeated, chunker>>

\* expand_query(query) is called
expand_query_call(t, q) ==
    /\ synonyms.th[t].pc = "idle" /\ Runnable(t)
    /\ synonyms' = [synonyms EXCEPT
          !.expansion = NoExpansion,
          !.th = SetThread(t, [IdleThread EXCEPT
                    !.pc = "build", !.op = "expand", !.query = q,
                    !.start = synonyms.complete, !.after = synonyms.written])]
    /\ UNCHANGED <<opsVars, storeVars, retrVars, fusion, fallback, answer, repeated, chunker>>

\* line 134: _build_reverse_map()
expand_build(t) ==
    /\ synonyms.th[t].pc = "build"
    /\ synonyms' = [synonyms EXCEPT
          !._REVERSE_MAP = _build_reverse_map(@),
          !.th = SetThread(t, [synonyms.th[t] EXCEPT !.pc = "read"])]
    /\ UNCHANGED <<opsVars, storeVars, retrVars, fusion, fallback, answer, repeated, chunker>>

\* lines 135-153: the variants are computed from the map as it is now
expand_read(t) ==
    /\ synonyms.th[t].pc = "read"
    /\ LET me == synonyms.th[t]
       IN synonyms' = [synonyms EXCEPT
             !.expansion = [done |-> TRUE, query |-> me.query,
                            seen |-> synonyms._REVERSE_MAP,
                            start |-> me.start, current |-> synonyms.complete,
                            variants |-> ExpandedQueries(me.query, synonyms._REVERSE_MAP),
                            custom |-> get_custom_synonyms_from_db(synonyms.db),
                            after_write |-> me.after],
             !.th = SetThread(t, IdleThread)]
    /\ UNCHANGED <<opsVars, storeVars, retrVars, fusion, fallback, answer, repeated, chunker>>

NextSynonyms ==
    \E t \in Threads :
        \/ \E X \in Dicts, replace \in BOOLEAN : save_custom_synonyms_to_db(t, X, replace)
        \/ \E term \in CanonicalArgs : delete_custom_synonym(t, term)
        \/ synonyms_commit(t)
        \/ reload_load(t) \/ reload_merge(t) \/ reload_clear(t) \/ reload_fill(t)
        \/ \E q \in Queries : expand_query_call(t, q)
        \/ expand_build(t) \/ expand_read(t)

SpecSynonyms == InitSynonyms /\ [][NextSynonyms]_vars

\* v is q with a term of the dictionary d replaced by one of its synonyms
VariantOf(v, q, d) ==
    \E i \in DOMAIN d : \E j \in DOMAIN d[i].v : v = Substitute(q, d[i].k, d[i].v[j])

\* C15: an expansion made after a synonym write has returned uses the merged
\* built-in + custom map as of that write: a query that contains a custom
\* canonical term gets a variant for each custom synonym of the term, and
\* every variant comes from an entry that is (still) in the merged map.
C15_ExpansionUsesCustomSynonyms ==
    LET e == synonyms.expansion
    IN (e.done /\ e.after_write)
          => /\ \A i \in DOMAIN e.custom :
                  Contains(e.query, e.custom[i].k)
                     => \A j \in DOMAIN e.custom[i].v :
                           \E n \in DOMAIN e.variants :
                              e.variants[n] = Substitute(e.query, e.custom[i].k, e.custom[i].v[j])
             /\ \A n \in DOMAIN e.variants :
                  n > 1 => VariantOf(e.variants[n], e.query,
                                     merge_synonyms(BUILTIN_SYNONYMS, e.custom))

\* the map an expansion reads is the complete map of before or of after the
\* writes that were under way while it ran, and it is never empty
SeesCompleteMap ==
    LET e == synonyms.expansion
    IN e.done => DOMAIN e.seen # {} /\ (e.seen = e.start \/ e.seen = e.current)

WritePcs == {"commit", "reload", "merge", "clear", "fill"}

SavedWithReplace(t) ==
    LET me == synonyms.th[t] IN me.pc = "reload" /\ me.op = "save" /\ me.replace

Loaded == AsFunction(get_custom_synonyms_from_db(synonyms.db))

\* lower-case terms and synonyms, no blank synonym, no empty list
IsNormal(X) ==
    \A i \in DOMAIN X :
        /\ lower(X[i].k) = X[i].k /\ X[i].v # <<>>
        /\ \A j \in DOMAIN X[i].v : ~IsBlank(X[i].v[j]) /\ lower(X[i].v[j]) = X[i].v[j]

\* X with terms and synonyms lower-cased, blank synonyms dropped, entries
\* without synonyms left out, the later of two entries with one term kept
NormalForm(X) ==
    LET kept == {i \in DOMAIN X : syns_lower(X[i].v) # <<>>}
        last(k) == CHOOSE i \in kept :
                      lower(X[i].k) = k /\ \A j \in kept : lower(X[j].k) = k => j <= i
    IN [k \in {lower(X[i].k) : i \in kept} |-> syns_lower(X[last(k)].v)]

\* C17 as stated: after a save of X with replace = true, loading the custom
\* synonyms returns exactly X, whatever was stored before.
C17_SaveLoadIdentity ==
    \A t \in Threads : SavedWithReplace(t) => Loaded = AsFunction(synonyms.th[t].X)

\* C17, amended: after a save of X with replace = true, loading returns the
\* normal form of X, whatever was stored before; that is X itself when X is
\* in normal form.
C17_SaveLoadNormalForm ==
    \A t \in Threads :
        SavedWithReplace(t)
           => /\ Loaded = NormalForm(synonyms.th[t].X)
              /\ IsNormal(synonyms.th[t].X) => Loaded = AsFunction(synonyms.th[t].X)

C17_Witness ==
    \E t \in Threads :
        /\ SavedWithReplace(t)
        /\ synonyms.th[t].X # <<>> /\ IsNormal(synonyms.th[t].X)
        /\ \E k \in DictKeys(synonyms.th[t].old) : k \notin DictKeys(synonyms.th[t].X)

(***************************************************************************)
(* Part VII.  Two index_file calls at once                                 *)
(***************************************************************************)
(* index_all_stream runs index_file in a worker thread (asyncio.to_thread, *)
(* routes/documents.py line 181) and leaves the event loop free, so a      *)
(* second index_file call (POST /{file_id}/index, a second stream) runs    *)
(* while the first is under way.  Each call has its own connection         *)
(* (get_connection, no timeout argument: sqlite3 waits 5 seconds for the   *)
(* database's write lock and then raises OperationalError).                *)
(***************************************************************************)
IndexWorkers == {"w1", "w2"}
IndexedPaths == <<"a.pdf", "b.pdf">>

\* the file the worker indexes: the two calls are for different files
AssignedFile(w) == IF w = "w1" THEN 1 ELSE 2

\* both PDFs are in the directory and scan_agreements has registered them
InitConcurrent ==
    /\ disk = [p \in {IndexedPaths[i] : i \in DOMAIN IndexedPaths} |-> "v1"]
    /\ db = ScanFiles(EmptyDb, EmptyDb, IndexedPaths)
    /\ tx = db
    /\ writer = NoWriter
    /\ vec = {}
    /\ run = [w \in IndexWorkers |-> IdleRun]
    /\ RetrIdle
    /\ PureIdle

\* the call has handed an exception to its caller
Raised(f) == [IdleRun EXCEPT !.pc = "raised", !.file = f]

\* line 42: the UPDATE that marks the file 'indexing' waits for the write lock
\* another connection holds and gives up after the busy timeout; the
\* statement is outside the try block, so get_db rolls back (nothing was
\* written) and the caller gets OperationalError('database is locked')
index_file_mark_locked(w, f) ==
    /\ run[w].pc = "idle"
    /\ writer \notin {NoWriter, w}
    /\ f \in FileIds(db)
    /\ run' = [run EXCEPT ![w] = Raised(f)]
    /\ UNCHANGED <<disk, db, tx, writer, vec>>
    /\ UNCHANGED <<retrVars, pureVars, opsVars>>

\* line 50: the first DELETE waits for the write lock and gives up; the
\* handler of line 205 runs its UPDATE (which waits for the same lock) and
\* re-raises, get_db rolls back: the committed status stays 'indexing'
index_file_store_locked(w) ==
    /\ run[w].pc = "marked"
    /\ writer \notin {NoWriter, w}
    /\ run' = [run EXCEPT ![w] = Raised(run[w].file)]
    /\ UNCHANGED <<disk, db, tx, writer, vec>>
    /\ UNCHANGED <<retrVars, pureVars, opsVars>>

NextConcurrent ==
    \/ \E w \in IndexWorkers, us \in BOOLEAN, be \in BOOLEAN :
          index_file_mark(w, AssignedFile(w), us, be)
    \/ \E w \in IndexWorkers : index_file_mark_locked(w, AssignedFile(w))
    \/ \E w \in IndexWorkers : index_file_store(w)
    \/ \E w \in IndexWorkers : index_file_store_locked(w)
    \/ \E w \in IndexWorkers : index_file_clear_embeddings(w)
    \/ \E w \in IndexWorkers : index_file_add_embedding(w)
    \/ \E w \in IndexWorkers : index_file_embedding_aborts(w)
    \/ \E w \in IndexWorkers : index_file_commit(w)

SpecConcurrent == InitConcurrent /\ [][NextConcurrent]_vars

\* file f is stored with its full content: status 'indexed', every page of the
\* PDF in pdf_pages and in page_fts
FullyIndexed(f) ==
    /\ db.files[f].status = "indexed"
    /\ db.files[f].pages = PageCount(disk[db.files[f].path])
    /\ Cardinality(PagesOf(db, f)) = PageCount(disk[db.files[f].path])
    /\ Cardinality(PftsOf(db, f)) = PageCount(disk[db.files[f].path])

\* C18: of two index_file calls for different files that run concurrently,
\* neither hands an exception to its caller because of the other's write
\* transaction, and a file whose call has returned is 'indexed' with its
\* full content.
C18_ConcurrentIndexingCompletes ==
    \A w \in IndexWorkers :
        /\ run[w].pc # "raised"
        /\ (run[w].pc = "idle" /\ db.files[AssignedFile(w)].status # "pending")
              => FullyIndexed(AssignedFile(w))

(***************************************************************************)
(* Part VIII.  detect_repeated_lines                                       *)
(***************************************************************************)
MaxPages == 5         \* pages of the longest document explored

\* lines as they come out of normalize_text and page_text.split('\n')
Header       == "Page Header"
PaddedHeader == "  Page Header "
ArticleLine  == "Article 1 Wages"
RomanNumber  == "ii"
BodyLine     == "Body text"
BlankLine    == "  "

\* line.strip()
strip(line) ==
    CASE line = PaddedHeader -> Header
      [] line = BlankLine    -> ""
      [] OTHER               -> line

\* len(normalized)
LineLen(line) ==
    CASE line = ""          -> 0
      [] line = RomanNumber -> 2
      [] line = Header      -> 11
      [] line = ArticleLine -> 15
      [] OTHER              -> 9

\* re.match(r'^Article\s+\d+', line, re.IGNORECASE)
IsArticleHeader(line) == line = ArticleLine

\* the page texts of the documents explored, each split at '\n'
PageTexts ==
    { <<Header, BodyLine>>, <<PaddedHeader, Header>>, <<ArticleLine, BlankLine>>,
      <<RomanNumber>>, <<BodyLine>>, <<Header, ArticleLine>> }

Documents == UNION {[1..n -> PageTexts] : n \in 0..MaxPages}

\* threshold = 0.6 as the double it is: (ThresholdHi * Limb + ThresholdLo) * 2^-53
Limb        == 67108864
ThresholdHi == 80530636
ThresholdLo == 53687091
MantissaTop == 27     \* bits of the high limb of a 53-bit mantissa

RECURSIVE BitLen(_)
BitLen(x) == IF x = 0 THEN 0 ELSE 1 + BitLen(x \div 2)

RECURSIVE Pow2(_)
Pow2(s) == IF s = 0 THEN 1 ELSE 2 * Pow2(s - 1)

\* len(pages) * threshold in double arithmetic: the exact product of n and the
\* mantissa, rounded to 53 significant bits (ties to even); the result is the
\* pair of limbs of the value scaled by 2^53
FloatMul(n) ==
    LET lo0   == n * ThresholdLo
        hi0   == n * ThresholdHi + lo0 \div Limb
        lo1   == lo0 % Limb
        s     == IF BitLen(hi0) > MantissaTop THEN BitLen(hi0) - MantissaTop ELSE 0
        q     == lo1 \div Pow2(s)
        r     == lo1 % Pow2(s)
        up    == s > 0 /\ (2 * r > Pow2(s) \/ (2 * r = Pow2(s) /\ q % 2 = 1))
        lo2   == (IF up THEN q + 1 ELSE q) * Pow2(s)
    IN [hi |-> hi0 + lo2 \div Limb, lo |-> lo2 % Limb]

\* int(x) of a non-negative double
FloatToInt(x) == x.hi \div Pow2(MantissaTop)

\* lines 410-414: the distinct lines of one page that are counted
page_lines(page_text) ==
    {strip(page_text[i]) : i \in {j \in DOMAIN page_text :
        strip(page_text[j]) # "" /\ LineLen(strip(page_text[j])) > 2}}

\* line_counts[line]
line_counts(pages, line) ==
    Cardinality({i \in DOMAIN pages : line \in page_lines(pages[i])})

\* line 420
min_occurrences(pages) == FloatToInt(FloatMul(Len(pages)))

detect_repeated_lines(pages) ==
    IF Len(pages) < 3 THEN {}
    ELSE {line \in UNION {page_lines(pages[i]) : i \in DOMAIN pages} :
             /\ line_counts(pages, line) >= min_occurrences(pages)
             /\ ~IsArticleHeader(line)}

InitRepeated ==
    /\ repeated \in {[pc |-> "called", pages |-> d] : d \in Documents}
    /\ StoreIdle /\ RetrIdle
    /\ fusion = Off /\ fallback = Off /\ answer = Off
    /\ synonyms = Off /\ chunker = Off
    /\ OpsIdle

detect_repeated_lines_call ==
    /\ repeated.pc = "called"
    /\ repeated' = [pc |-> "returned", pages |-> repeated.pages,
                    result |-> detect_repeated_lines(repeated.pages)]
    /\ UNCHANGED <<opsVars, storeVars, retrVars, fusion, fallback, answer, synonyms, chunker>>

NextRepeated == detect_repeated_lines_call

SpecRepeated == InitRepeated /\ [][NextRepeated]_vars

\* the number of pages on which the line occurs
PagesWith(pages, line) ==
    Cardinality({i \in DOMAIN pages :
                    \E j \in DOMAIN pages[i] : strip(pages[i][j]) = line})

\* C19: a line is classified as repeated only if it occurs on at least 60% of
\* the pages, for every page count of 3 or more; with fewer than 3 pages no
\* line is classified.
C19_RepeatedMeansSixtyPercent ==
    repeated.pc = "returned" =>
        /\ Len(repeated.pages) < 3 => repeated.result = {}
        /\ \A line \in repeated.result :
              100 * PagesWith(repeated.pages, line) >= 60 * Len(repeated.pages)

(***************************************************************************)
(* Part IX.  create_semantic_chunks                                        *)
(***************************************************************************)
(* A structured page is the sequence of its lines (page.text split at      *)
(* '\n'); a line is its length and the level of the heading detected on    *)
(* it (0: no heading).  extract_structured_pages normalizes the text, so   *)
(* lines carry no outer white space and the only empty line is the single  *)
(* line of a page without text.                                            *)
(***************************************************************************)
MaxDocPages  == 2     \* pages of the longest document explored
MaxPageLines == 2     \* lines of the longest page explored

max_chunk_size == 2000
min_chunk_size == 200
overlap_size   == 200
TableLen       == 3000   \* characters of the markdown text of the table explored

Line(n, level) == [len |-> n, level |-> level]

EmptyLine == Line(0, 0)

LineKinds ==
    { Line(30, 1), Line(30, 2), Line(30, 3),
      Line(150, 0), Line(1200, 0), Line(2000, 0), Line(2500, 0) }

StructuredPages ==
    {<<EmptyLine>>} \cup UNION {[1..n -> LineKinds] : n \in 1..MaxPageLines}

StructuredDocs == UNION {[1..n -> StructuredPages] : n \in 0..MaxDocPages}

RECURSIVE SumLens(_)
SumLens(lines) ==
    IF lines = <<>> THEN 0 ELSE Head(lines).len + SumLens(Tail(lines))

\* len('\n'.join(lines))
JoinLen(lines) == IF lines = <<>> THEN 0 ELSE SumLens(lines) + Len(lines) - 1

\* the lines left of '\n'.join(lines).strip(): empty lines at either end go,
\* together with their line breaks
RECURSIVE StripLeft(_)
StripLeft(lines) ==
    IF lines # <<>> /\ Head(lines).len = 0 THEN StripLeft(Tail(lines)) ELSE lines

RECURSIVE StripRight(_)
StripRight(lines) ==
    IF lines # <<>> /\ lines[Len(lines)].len = 0
    THEN StripRight(SubSeq(lines, 1, Len(lines) - 1))
    ELSE lines

StripLen(lines) == JoinLen(StripRight(StripLeft(lines)))

\* where overlap.find(' ') finds the first space in the last overlap_size
\* characters of the previous chunk: nowhere, at the start, early, late
NoSpace  == -1
SpaceIdx == {NoSpace, 0, 40, 150}

\* len(_get_overlap_text(text, overlap_size)) for a text of n characters
OverlapLen(n, space_idx) ==
    IF n <= overlap_size THEN n
    ELSE IF space_idx > 0 /\ space_idx < overlap_size \div 2
         THEN overlap_size - (space_idx + 1)
         ELSE IF space_idx = 0 THEN overlap_size - 1   \* .strip()
              ELSE overlap_size

\* DocumentChunk: the body and the overlap prefix of the text, the page range
DocumentChunk(body, overlap, page_start, page_end, chunk_type) ==
    [body |-> body, overlap |-> overlap,
     len |-> IF overlap > 0 /\ body > 0 THEN overlap + 2 + body ELSE overlap + body,
     page_start |-> page_start, page_end |-> page_end, chunk_type |-> chunk_type]

\* all_headings is not empty
HasHeadings(pages) ==
    \E p \in DOMAIN pages : \E l \in DOMAIN pages[p] : pages[p][l].level > 0

\* the call frame: the arguments, the position of the loops and the locals
ChunkerFrame(pages, tables) ==
    [pc |-> "called", pages |-> pages, tables |-> tables, chunks |-> <<>>,
     previous |-> 0, current |-> <<>>, current_page_start |-> 1, p |-> 1, l |-> 1]

\* chunks.append(...) with the overlap of the previous chunk, then
\* previous_chunk_text = text
Emit(c, body, prev, page_start, page_end, space_idx) ==
    [c EXCEPT !.chunks = Append(@, DocumentChunk(body,
                                     OverlapLen(c.previous, space_idx),
                                     page_start, page_end, "text")),
              !.previous = prev]

\* lines 370-393: a level-1 or level-2 heading closes the accumulated chunk
\* when it has min_chunk_size characters
HeadingFlush(c, line, space_idx) ==
    IF line.level \in {1, 2} /\ StripLen(c.current) >= min_chunk_size
    THEN [Emit(c, StripLen(c.current), StripLen(c.current),
               c.current_page_start, c.p, space_idx)
             EXCEPT !.current = <<>>, !.current_page_start = c.p]
    ELSE c

\* lines 406-429: the line is appended, then the size is checked
ForcedFlush(c, line, space_idx) ==
    LET lines == Append(c.current, line) IN
    IF JoinLen(lines) >= max_chunk_size
    THEN [Emit(c, StripLen(lines), StripLen(lines),
               c.current_page_start, c.p, space_idx)
             EXCEPT !.current = <<>>, !.current_page_start = c.p]
    ELSE [c EXCEPT !.current = lines]

\* the position after line l of page p
Advance(c) ==
    IF c.l < Len(c.pages[c.p]) THEN [c EXCEPT !.l = @ + 1]
    ELSE IF c.p < Len(c.pages) THEN [c EXCEPT !.p = @ + 1, !.l = 1]
    ELSE [c EXCEPT !.pc = "last"]

\* lines 450-471: one chunk per table, after the text chunks
TableChunks(c) ==
    [c EXCEPT !.chunks = @ \o [i \in 1..c.tables |->
                                  DocumentChunk(TableLen, 0, 1, 1, "table")],
              !.pc = "returned"]

InitChunker ==
    /\ chunker \in {ChunkerFrame(d, t) : d \in StructuredDocs, t \in 0..1}
    /\ StoreIdle /\ RetrIdle
    /\ fusion = Off /\ fallback = Off /\ answer = Off
    /\ synonyms = Off /\ repeated = Off
    /\ OpsIdle

\* lines 310-331: tables_by_page and all_headings are built; without headings
\* the page loop of lines 333-346 is taken, else the line loop of 356-429
create_semantic_chunks_begin ==
    /\ chunker.pc = "called"
    /\ chunker' = [chunker EXCEPT !.pc =
                      IF HasHeadings(chunker.pages) THEN "lines"
                      ELSE IF chunker.pages = <<>> THEN "returned" ELSE "pages"]
    /\ UNCHANGED <<opsVars, storeVars, retrVars, fusion, fallback, answer, synonyms, repeated>>

\* lines 334-346: one chunk for page p, whatever its size; `return chunks`
\* after the last page, before the table chunks
create_semantic_chunks_page ==
    /\ chunker.pc = "pages"
    /\ \E space_idx \in SpaceIdx :
          LET c    == chunker
              text == JoinLen(c.pages[c.p])
              c1   == Emit(c, StripLen(c.pages[c.p]), text, c.p, c.p, space_idx)
          IN chunker' = IF c.p < Len(c.pages) THEN [c1 EXCEPT !.p = @ + 1]
                        ELSE [c1 EXCEPT !.pc = "returned"]
    /\ UNCHANGED <<opsVars, storeVars, retrVars, fusion, fallback, answer, synonyms, repeated>>

\* lines 360-429: the body of the loop for line l of page p
create_semantic_chunks_line ==
    /\ chunker.pc = "lines"
    /\ \E s1 \in SpaceIdx, s2 \in SpaceIdx :
          LET line == chunker.pages[chunker.p][chunker.l]
          IN chunker' = Advance(ForcedFlush(HeadingFlush(chunker, line, s1), line, s2))
    /\ UNCHANGED <<opsVars, storeVars, retrVars, fusion, fallback, answer, synonyms, repeated>>

\* lines 431-473: the last chunk, then the table chunks
create_semantic_chunks_last ==
    /\ chunker.pc = "last"
    /\ \E space_idx \in SpaceIdx :
          LET c == chunker
              final_text == StripLen(c.current)
          IN chunker' = TableChunks(
                 IF c.current # <<>> /\ final_text > 0
                 THEN Emit(c, final_text, c.previous, c.current_page_start,
                           Len(c.pages), space_idx)
                 ELSE c)
    /\ UNCHANGED <<opsVars, storeVars, retrVars, fusion, fallback, answer, synonyms, repeated>>

NextChunker ==
    \/ create_semantic_chunks_begin
    \/ create_semantic_chunks_page
    \/ create_semantic_chunks_line
    \/ create_semantic_chunks_last

SpecChunker == InitChunker /\ [][NextChunker]_vars

\* no single line of the document is longer than the maximum chunk size
NoLongLine(pages) ==
    \A p \in DOMAIN pages : \A l \in DOMAIN pages[p] : pages[p][l].len <= max_chunk_size

\* C20: every chunk of type text has a body (its text without the overlap
\* prefix) of at most max_chunk_size = 2000 characters, for every document in
\* which no single line is longer than the maximum.
C20_TextBodyWithinMax ==
    NoLongLine(chunker.pages) =>
        \A i \in DOMAIN chunker.chunks :
            chunker.chunks[i].chunk_type = "text"
               => chunker.chunks[i].body <= max_chunk_size

(***************************************************************************)
(* Part X.  _get_overlap_text                                              *)
(***************************************************************************)
(* A text is a sequence of runs of one character class: "w" a character of *)
(* a word, " " a space, "\n" a line break.  The texts handed to the        *)
(* function are chunk bodies and page texts: stripped, not empty.          *)
(***************************************************************************)
MaxRuns == 4          \* runs of the longest text explored

Run(ch, n) == [ch |-> ch, n |-> n]

Runs == {Run("w", 5), Run("w", 120), Run("w", 250), Run(" ", 1), Run("\n", 1)}

IsWhite(ch) == ch \in {" ", "\n"}

BodyTexts ==
    {t \in UNION {[1..n -> Runs] : n \in 1..MaxRuns} :
        ~IsWhite(t[1].ch) /\ ~IsWhite(t[Len(t)].ch)}

\* len(text)
RECURSIVE TextLen(_)
TextLen(t) == IF t = <<>> THEN 0 ELSE Head(t).n + TextLen(Tail(t))

\* text[k:]
RECURSIVE DropChars(_, _)
DropChars(t, k) ==
    IF k = 0 \/ t = <<>> THEN t
    ELSE IF Head(t).n <= k THEN DropChars(Tail(t), k - Head(t).n)
         ELSE <<Run(Head(t).ch, Head(t).n - k)>> \o Tail(t)

\* text[-k:]
LastChars(t, k) == DropChars(t, TextLen(t) - k)

\* text.find(' '), counted from `at`
RECURSIVE FindSpace(_, _)
FindSpace(t, at) ==
    IF t = <<>> THEN -1
    ELSE IF Head(t).ch = " " THEN at
         ELSE FindSpace(Tail(t), at + Head(t).n)

RECURSIVE lstrip(_)
lstrip(t) == IF t # <<>> /\ IsWhite(Head(t).ch) THEN lstrip(Tail(t)) ELSE t

RECURSIVE rstrip(_)
rstrip(t) ==
    IF t # <<>> /\ IsWhite(t[Len(t)].ch) THEN rstrip(SubSeq(t, 1, Len(t) - 1)) ELSE t

\* lines 503-514
_get_overlap_text(text, size) ==
    IF TextLen(text) <= size THEN text
    ELSE LET overlap   == LastChars(text, size)
             space_idx == FindSpace(overlap, 0)
         IN rstrip(lstrip(IF space_idx > 0 /\ space_idx < size \div 2
                          THEN DropChars(overlap, space_idx + 1)
                          ELSE overlap))

InitOverlap ==
    /\ chunker \in {[pc |-> "overlap", text |-> t] : t \in BodyTexts}
    /\ StoreIdle /\ RetrIdle
    /\ fusion = Off /\ fallback = Off /\ answer = Off
    /\ synonyms = Off /\ repeated = Off
    /\ OpsIdle

\* lines 377, 413, 435: the overlap for the chunk after previous_chunk_text
get_overlap_text_call ==
    /\ chunker.pc = "overlap"
    /\ chunker' = [pc |-> "overlapped", text |-> chunker.text,
                   overlap |-> _get_overlap_text(chunker.text, overlap_size)]
    /\ UNCHANGED <<opsVars, storeVars, retrVars, fusion, fallback, answer, synonyms, repeated>>

NextOverlap == get_overlap_text_call

SpecOverlap == InitOverlap /\ [][NextOverlap]_vars

\* the p-th character of the text
RECURSIVE CharAt(_, _)
CharAt(t, p) == IF p <= Head(t).n THEN Head(t).ch ELSE CharAt(Tail(t), p - Head(t).n)

\* C21: the overlap prefix is a suffix of the previous chunk's body, at most
\* 200 characters long, and begins at a word boundary: the character before
\* it in the body, if there is one, is not a character of a word.
C21_OverlapWordAligned ==
    chunker.pc = "overlapped" =>
        LET t == chunker.text
            o == chunker.overlap
            k == TextLen(t) - TextLen(o)
        IN /\ DropChars(t, k) = o
           /\ TextLen(o) <= overlap_size
           /\ k > 0 => IsWhite(CharAt(t, k))

(***************************************************************************)
(* Part XI.  Searching the store                                           *)
(***************************************************************************)
\* a full-text query: the texts it matches are those of the version and of
\* the page number it names ("any", 0: no restriction)
PageQueries == [ver : {"any", "v1"}, n : 0..PageCount("v1")]

MatchesText(q, text) ==
    /\ q.ver = "any" \/ text.ver = q.ver
    /\ q.n = 0 \/ text.n = q.n

\* search_pages without file_id, with a limit that does not cut the result:
\* page_fts JOIN pdf_pages ON page_fts.page_id = p.id JOIN files ON
\* p.file_id = f.id WHERE page_fts MATCH ?
PageSearch(d, q) ==
    {[file_id |-> p.file_id, page_number |-> r.page_number, text |-> r.text] :
        <<r, p>> \in {x \in d.pfts \X d.pages :
                        /\ x[1].page_id = x[2].id
                        /\ x[2].file_id \in FileIds(d)
                        /\ MatchesText(q, x[1].text)}}

\* C22: in the store state right after an index_file call, every search
\* returns the same result set with and without a rebuild_fts_index before it.
C22_RebuildKeepsResults ==
    [][\A w \in Workers :
         (Commits(w) \/ Raises(w))
            => \A q \in PageQueries :
                  PageSearch(RebuiltFts(db'), q) = PageSearch(db', q)]_vars

(***************************************************************************)
(* Part XII.  index_file called again on an unchanged PDF                  *)
(***************************************************************************)
\* the PDF is in the directory, registered by scan_agreements, and stays as
\* it is
InitReindex ==
    /\ disk = [p \in Paths |-> "v1"]
    /\ db = ScanFiles(EmptyDb, EmptyDb, <<"a.pdf">>)
    /\ tx = db
    /\ writer = NoWriter
    /\ vec = {}
    /\ run = [w \in Workers |-> IdleRun]
    /\ RetrIdle
    /\ PureIdle

NextReindex ==
    \/ \E w \in Workers, us \in BOOLEAN, be \in BOOLEAN : index_file_mark(w, 1, us, be)
    \/ \E w \in Workers : index_file_store(w)
    \/ \E w \in Workers : index_file_clear_embeddings(w)
    \/ \E w \in Workers : index_file_add_embedding(w)
    \/ \E w \in Workers : index_file_embedding_aborts(w)
    \/ \E w \in Workers : index_file_commit(w)
    \/ \E w \in Workers : index_file_fails(w)

SpecReindex == InitReindex /\ [][NextReindex]_vars

\* the page number of the pdf_pages row with this id (0: no such row)
PageNo(d, id) ==
    IF \E p \in d.pages : p.id = id
    THEN (CHOOSE p \in d.pages : p.id = id).page_number ELSE 0

\* the chunk number of the document_chunks row with this id (0: no such row)
ChunkNo(d, id) ==
    IF \E c \in d.chunks : c.id = id
    THEN (CHOOSE c \in d.chunks : c.id = id).chunk_number ELSE 0

\* the stored data of file f up to row ids: the rows without their ids (a
\* full-text row with the number of the row it points to) and their counts
FileView(d, f) ==
    [status |-> d.files[f].status, pages |-> d.files[f].pages,
     prows |-> {<<r.page_number, r.text>> : r \in PagesOf(d, f)},
     frows |-> {<<r.page_number, r.text, PageNo(d, r.page_id)>> : r \in PftsOf(d, f)},
     crows |-> {<<r.chunk_number, r.text>> : r \in ChunksOf(d, f)},
     xrows |-> {<<r.text, ChunkNo(d, r.chunk_id)>> : r \in CftsOf(d, f)},
     trows |-> {<<r.table_index, r.ver>> : r \in TablesOf(d, f)},
     counts |-> <<Cardinality(PagesOf(d, f)), Cardinality(PftsOf(d, f)),
                  Cardinality(ChunksOf(d, f)), Cardinality(CftsOf(d, f)),
                  Cardinality(TablesOf(d, f))>>]

\* what one successful call leaves for a PDF of version v from which t tables
\* and k chunks were extracted
OneCallView(v, t, k, status) ==
    [status |-> status, pages |-> PageCount(v),
     prows |-> {<<n, PageText(v, n)>> : n \in 1..PageCount(v)},
     frows |-> {<<n, PageText(v, n), n>> : n \in 1..PageCount(v)},
     crows |-> {<<n, ChunkText(v, n)>> : n \in 1..k},
     xrows |-> {<<ChunkText(v, n), n>> : n \in 1..k},
     trows |-> {<<n, v>> : n \in 1..t},
     counts |-> <<PageCount(v), PageCount(v), k, k, t>>]

\* the step is the commit of a call on a file that holds the result of an
\* earlier call with the same PDF and the same extraction
SecondCallCommits(w) ==
    /\ Commits(w)
    /\ run[w].file \in FileIds(db)
    /\ FileView(db, run[w].file)
          = OneCallView(run[w].ver, Cardinality(TablesOf(tx, run[w].file)),
                        run[w].cc, "indexing")

\* C23: a second index_file call on an unchanged PDF leaves the file's pages,
\* chunks, tables, page and chunk full-text rows, status and page count as the
\* first call left them, up to row ids, with no duplicate row.
C23_SecondCallSameState ==
    [][\A w \in Workers :
         SecondCallCommits(w)
            => /\ FileView(db', run[w].file)
                     = [FileView(db, run[w].file) EXCEPT !.status = "indexed"]
               /\ FileView(db', run[w].file)
                     = OneCallView(run[w].ver, Cardinality(TablesOf(tx, run[w].file)),
                                   run[w].cc, "indexed")]_vars

\* file 1 is indexed with content and all its rows carry ids of a second run
C23_Witness ==
    /\ 1 \in FileIds(db)
    /\ db.files[1].status = "indexed"
    /\ FileView(db, 1) = OneCallView("v1", TableCount("v1"), ChunkCount("v1"), "indexed")
    /\ \A r \in PagesOf(db, 1) : r.id > PageCount("v1")
    /\ \A r \in ChunksOf(db, 1) : r.id > ChunkCount("v1")
    /\ db.nextPage = 2 * PageCount("v1") + 1
    /\ db.nextChunk = 2 * ChunkCount("v1") + 1

(***************************************************************************)
(* Part XIII.  Batch indexing: GET /documents/index-all-stream and         *)
(* POST /documents/index-all (routes/documents.py)                         *)
(***************************************************************************)
BatchWorker == "w1"

IdleBatch == [pc |-> "idle", kind |-> "none", pending |-> <<>>, i |-> 0,
              indexed |-> 0, errors |-> 0]

\* the statuses a batch run of the given kind selects: line 158 for the
\* streaming run, line 127 for the POST handler
SelectedStatuses(kind) ==
    IF kind = "stream" THEN {"pending", "error"} ELSE {"pending"}

RECURSIVE SelectFiles(_, _, _)
\* get_all_files() filtered by status: the ids from f upwards, in order
SelectFiles(d, kind, f) ==
    IF f >= d.nextFile THEN <<>>
    ELSE (IF f \in FileIds(d) /\ d.files[f].status \in SelectedStatuses(kind)
          THEN <<f>> ELSE <<>>) \o SelectFiles(d, kind, f + 1)

\* one PDF lies in the directory and scan_agreements has registered it
InitBatch ==
    /\ disk = [p \in Paths |-> "v1"]
    /\ db = ScanFiles(EmptyDb, EmptyDb, <<"a.pdf">>)
    /\ tx = db
    /\ writer = NoWriter
    /\ vec = {}
    /\ run = [w \in Workers |-> IdleRun]
    /\ RetrIdle
    /\ fusion = Off /\ fallback = Off /\ answer = Off
    /\ synonyms = Off /\ repeated = Off /\ chunker = Off
    /\ batch = IdleBatch /\ toggles = Off /\ update = Off

\* lines 157-165 (stream) / 122-126 (POST): read the file rows and keep those
\* with a selected status; with nothing selected the run is complete at once
index_all_begin(kind) ==
    /\ batch.pc = "idle"
    /\ LET pending == SelectFiles(db, kind, 1)
       IN batch' = [IdleBatch EXCEPT !.pc = IF pending = <<>> THEN "idle" ELSE "loop",
                                     !.kind = kind, !.pending = pending, !.i = 1]
    /\ UNCHANGED <<storeVars, retrVars, pureVars, toggles, update>>

\* lines 172-175: the client of the streaming run has gone, the generator returns
index_all_stream_disconnected ==
    /\ batch.pc = "loop" /\ batch.kind = "stream"
    /\ batch.i <= Len(batch.pending)
    /\ batch' = [batch EXCEPT !.pc = "idle"]
    /\ UNCHANGED <<storeVars, retrVars, pureVars, toggles, update>>

\* line 181 / 129: index_file(doc.id) with its default arguments is called
\* for the next selected document
index_all_call ==
    /\ batch.pc = "loop"
    /\ batch.i <= Len(batch.pending)
    /\ MarkIndexing(BatchWorker, batch.pending[batch.i], TRUE, FALSE)
    /\ batch' = [batch EXCEPT !.pc = "awaiting"]
    /\ UNCHANGED <<retrVars, pureVars, toggles, update>>

\* lines 182-185 / 130-132: the call returned (the file is 'indexed') or
\* raised; count it and go on with the next document
index_all_next ==
    /\ batch.pc = "awaiting"
    /\ run[BatchWorker].pc = "idle"
    /\ LET f == batch.pending[batch.i]
           ok == f \in FileIds(db) /\ db.files[f].status = "indexed"
       IN batch' = [batch EXCEPT !.pc = "loop", !.i = @ + 1,
                                 !.indexed = IF ok THEN @ + 1 ELSE @,
                                 !.errors = IF ok THEN @ ELSE @ + 1]
    /\ UNCHANGED <<storeVars, retrVars, pureVars, toggles, update>>

\* line 187 / 134: the loop is over, the totals are reported
index_all_complete ==
    /\ batch.pc = "loop"
    /\ batch.i > Len(batch.pending)
    /\ batch' = [batch EXCEPT !.pc = "idle"]
    /\ UNCHANGED <<storeVars, retrVars, pureVars, toggles, update>>

\* the steps of the index_file call the batch run waits for
IndexFileStep ==
    \/ index_file_extract_fails(BatchWorker)
    \/ index_file_store(BatchWorker)
    \/ index_file_commit(BatchWorker)
    \/ index_file_fails(BatchWorker)

NextBatch ==
    \/ \E kind \in {"stream", "post"} : index_all_begin(kind)
    \/ index_all_stream_disconnected
    \/ index_all_call
    \/ index_all_next
    \/ index_all_complete
    \/ index_file_extract_fails(BatchWorker)
    \/ index_file_store(BatchWorker)
    \/ index_file_commit(BatchWorker)
    \/ index_file_fails(BatchWorker)
    \/ scan_agreements
    \/ \E p \in Paths, v \in Versions : WritePdf(p, v)

SpecBatch == InitBatch /\ [][NextBatch]_vars

\* The user starts streaming batch runs again and again, a client that keeps
\* trying eventually stays connected for a call, the event loop resumes the
\* generator, and a running index_file call goes on to its end.
SpecBatchLive ==
    /\ SpecBatch
    /\ WF_vars(index_all_begin("stream"))
    /\ SF_vars(index_all_call)
    /\ WF_vars(index_all_next)
    /\ WF_vars(index_all_complete)
    /\ WF_vars(IndexFileStep)

\* a further index_file call fits into the id space of the model
HasRoom ==
    /\ db.nextPage + PageCount("v1") <= MaxPageId + 1
    /\ db.nextChunk + ChunkCount("v1") <= MaxChunkId + 1

\* no batch run is under way and file f waits with the given status
Waiting(f, statuses) ==
    /\ batch.pc = "idle"
    /\ f \in FileIds(db) /\ db.files[f].status \in statuses
    /\ HasRoom

\* index_file is running on file f, or the file has left the store
Attempted(f) ==
    \/ run[BatchWorker].pc # "idle" /\ run[BatchWorker].file = f
    \/ f \notin FileIds(db)

\* C24: every file whose status is not 'indexed' -- 'pending', 'error' or
\* 'indexing' left behind by a failed run -- is eventually attempted again
\* by a batch run.
C24_NotIndexedIsRetried ==
    \A f \in 1..MaxFileId :
        Waiting(f, {"pending", "error", "indexing"}) ~> Attempted(f)

\* the part that holds: a file waiting as 'pending' or 'error' is attempted
C24_PendingIsRetried ==
    \A f \in 1..MaxFileId : Waiting(f, {"pending", "error"}) ~> Attempted(f)

\* a failed run has left the file 'indexing' and no run is under way
C24_Witness ==
    /\ Waiting(1, {"indexing"})
    /\ run[BatchWorker].pc = "idle"
    /\ batch.kind = "stream" /\ batch.errors = 1

(***************************************************************************)
(* Part XIV.  Admin delete of one document among several                   *)
(***************************************************************************)
\* both PDFs are in the directory and scan_agreements has registered them
InitDelete ==
    /\ disk = [p \in {IndexedPaths[i] : i \in DOMAIN IndexedPaths} |-> "v1"]
    /\ db = ScanFiles(EmptyDb, EmptyDb, IndexedPaths)
    /\ tx = db
    /\ writer = NoWriter
    /\ vec = {}
    /\ run = [w \in Workers |-> IdleRun]
    /\ RetrIdle
    /\ PureIdle

NextDelete ==
    \/ \E w \in Workers, f \in 1..MaxFileId, us \in BOOLEAN : index_file_mark(w, f, us, FALSE)
    \/ \E w \in Workers : index_file_store(w)
    \/ \E w \in Workers : index_file_commit(w)
    \/ \E w \in Workers : index_file_fails(w)
    \/ \E f \in 1..MaxFileId : delete_document(f)

SpecDelete == InitDelete /\ [][NextDelete]_vars

\* the rows of file g in the relational store and the full-text tables
RowsOf(d, g) ==
    [pages |-> PagesOf(d, g), pfts |-> PftsOf(d, g), chunks |-> ChunksOf(d, g),
     cfts |-> CftsOf(d, g), tables |-> TablesOf(d, g)]

\* the step deletes the file row f
Deletes(f) == f \in FileIds(db) /\ f \notin FileIds(db')

\* C25: deleting document f leaves the pages, chunks, tables, page_fts and
\* chunk_fts rows of every other document unchanged.
C25_DeleteLeavesOthers ==
    [][\A f \in 1..MaxFileId :
         Deletes(f) => \A g \in FileIds(db) \ {f} : RowsOf(db', g) = RowsOf(db, g)]_vars

(***************************************************************************)
(* Part XV.  Source labels of the prompt and the provisional citations     *)
(***************************************************************************)
\* the context has been packed (the prompt is built, or the call returned)
Packed == answer # Off /\ answer.pc \in {"prompted", "returned"}

\* C26: for every source number i, the block labelled [Source i] and the
\* i-th provisional citation are for the same search result (file, page).
C26_LabelMatchesCitation ==
    Packed =>
        \A j \in DOMAIN answer.pack.parts :
            LET i == answer.pack.parts[j].label
            IN i \in DOMAIN answer.pack.citations
                  => answer.pack.citations[i] = answer.pack.parts[j].hit

(***************************************************************************)
(* Part XVI.  What the retrievers return after a change was detected       *)
(***************************************************************************)
\* search_chunks (search.py:575-610): chunk_fts JOIN document_chunks ON
\* chunk_fts.chunk_id = c.id JOIN files ON c.file_id = f.id, no status filter
ChunkSearch(d) ==
    {c \in d.chunks : c.file_id \in FileIds(d) /\ \E x \in d.cfts : x.chunk_id = c.id}

\* _query_wage_tables (qa.py:679-697): document_tables JOIN files (the tables
\* of the model's PDF are wage tables)
WageTables(d) == {t \in d.tables : t.file_id \in FileIds(d)}

\* search_semantic: the entries of the collection, no look at the files table
SemanticSearch(vc) == vc

\* the versions of file f whose content some retriever returns
RetrievedVersions(d, vc, f) ==
    {r.text.ver : r \in {x \in PageSearch(d, [ver |-> "any", n |-> 0]) : x.file_id = f}}
      \cup {c.text.ver : c \in {x \in ChunkSearch(d) : x.file_id = f}}
      \cup {t.ver : t \in {x \in WageTables(d) : x.file_id = f}}
      \cup {e.doc.ver : e \in {x \in SemanticSearch(vc) : x.file_id = f}}

\* the step is a scan that found file f changed: new hash, status 'pending'
ScanResets(f) ==
    /\ f \in FileIds(db) /\ f \in FileIds(db')
    /\ db'.files[f].sha # db.files[f].sha
    /\ db'.files[f].status = "pending"

\* C27: right after scan_agreements has reset a changed file to 'pending', no
\* retriever (page FTS, chunk FTS, wage tables, semantic search) returns
\* content of a version other than the one now registered.
C27_NoStaleContentAfterScan ==
    [][\A f \in 1..MaxFileId :
         ScanResets(f) => RetrievedVersions(db', vec', f) \subseteq {db'.files[f].sha}]_vars

(***************************************************************************)
(* Part XVII.  Document-scoped questions                                   *)
(***************************************************************************)
\* the call for a question with a document reference has returned
ScopedReturned ==
    fallback # Off /\ fallback.pc = "returned" /\ fallback.scoped # NoScope

\* C28: when a document reference was detected, every hit the call returns
\* belongs to the referenced file.
C28_ScopedHitsInFile ==
    ScopedReturned =>
        \A i \in DOMAIN fallback.results :
            FileOf(fallback.results[i].key) = fallback.scoped

(***************************************************************************)
(* Part XVIII.  toggle_file_public_read (db.py), called from several       *)
(* threads or processes.  Each call opens its own connection; the SELECT   *)
(* runs in autocommit mode, the UPDATE opens the write transaction and     *)
(* get_db commits it.                                                      *)
(***************************************************************************)
MaxToggles == 4       \* calls of toggle_file_public_read that are started
Togglers == {"t1", "t2"}
NoToggler == "none"

IdleToggle == [pc |-> "idle", row |-> FALSE, new_status |-> FALSE]

InitToggle ==
    /\ StoreIdle /\ RetrIdle
    /\ fusion = Off /\ fallback = Off /\ answer = Off
    /\ synonyms = Off /\ repeated = Off /\ chunker = Off
    /\ batch = Off /\ update = Off
    /\ \E exists, initial \in BOOLEAN :
          toggles = [exists |-> exists, initial |-> initial, public_read |-> initial,
                     lock |-> NoToggler, th |-> [t \in Togglers |-> IdleToggle],
                     started |-> 0, completed |-> 0, raised |-> 0]

\* lines 380-382: SELECT public_read FROM files WHERE id = ? finds the row
toggle_select(t) ==
    /\ toggles.th[t].pc = "idle"
    /\ toggles.started < MaxToggles
    /\ toggles.exists
    /\ toggles' = [toggles EXCEPT !.th[t] = [IdleToggle EXCEPT !.pc = "selected",
                                                              !.row = toggles.public_read],
                                  !.started = @ + 1]
    /\ UNCHANGED <<storeVars, retrVars, pureVars, batch, update>>

\* lines 384-385: no row, ValueError("File with id ... not found")
toggle_not_found(t) ==
    /\ toggles.th[t].pc = "idle"
    /\ toggles.started < MaxToggles
    /\ ~toggles.exists
    /\ toggles' = [toggles EXCEPT !.started = @ + 1, !.raised = @ + 1]
    /\ UNCHANGED <<storeVars, retrVars, pureVars, batch, update>>

\* lines 387-391: new_status = not bool(row["public_read"]); the UPDATE takes
\* the write lock and writes new_status into the connection's transaction
toggle_update(t) ==
    /\ toggles.th[t].pc = "selected"
    /\ toggles.lock = NoToggler
    /\ toggles' = [toggles EXCEPT !.th[t].pc = "updated",
                                  !.th[t].new_status = ~toggles.th[t].row,
                                  !.lock = t]
    /\ UNCHANGED <<storeVars, retrVars, pureVars, batch, update>>

\* the UPDATE waits for the write lock of another connection and gives up
\* after the busy timeout: OperationalError, get_db rolls back
toggle_update_locked(t) ==
    /\ toggles.th[t].pc = "selected"
    /\ toggles.lock \notin {NoToggler, t}
    /\ toggles' = [toggles EXCEPT !.th[t] = IdleToggle, !.raised = @ + 1]
    /\ UNCHANGED <<storeVars, retrVars, pureVars, batch, update>>

\* line 393 and get_db's commit: the value is persisted and returned
toggle_commit(t) ==
    /\ toggles.th[t].pc = "updated"
    /\ toggles' = [toggles EXCEPT !.public_read = toggles.th[t].new_status,
                                  !.lock = NoToggler,
                                  !.th[t] = [IdleToggle EXCEPT
                                                !.new_status = toggles.th[t].new_status],
                                  !.completed = @ + 1]
    /\ UNCHANGED <<storeVars, retrVars, pureVars, batch, update>>

NextToggle ==
    \/ \E t \in Togglers : toggle_select(t)
    \/ \E t \in Togglers : toggle_not_found(t)
    \/ \E t \in Togglers : toggle_update(t)
    \/ \E t \in Togglers : toggle_update_locked(t)
    \/ \E t \in Togglers : toggle_commit(t)

SpecToggle == InitToggle /\ [][NextToggle]_vars

\* no call is in flight
TogglesQuiet == toggles # Off /\ \A t \in Togglers : toggles.th[t].pc = "idle"

\* C29: after n completed toggles the persisted flag differs from its
\* initial value exactly when n is odd, also when the calls overlapped.
C29_FlagParity ==
    TogglesQuiet =>
        ((toggles.public_read # toggles.initial) <=> (toggles.completed % 2 = 1))

(***************************************************************************)
(* Part XIX.  _apply_pending_update (main.py), run once at startup before  *)
(* init_db.  A database file is [origin, tables, rows]: where it comes     *)
(* from, which of the two local tables it has, and their rows.             *)
(***************************************************************************)
LocalTables == {"bug_reports", "custom_synonyms"}

NoDbFile == [origin |-> "absent", tables |-> {}, rows |-> {}]

\* rows written on this installation
LocalRows ==
    {[table |-> "bug_reports", id |-> 1, term |-> "-", body |-> "local report"],
     [table |-> "custom_synonyms", id |-> 1, term |-> "leave", body |-> "pto"]}

\* rows that may come with a staged database
ShippedRows ==
    {[table |-> "bug_reports", id |-> 1, term |-> "-", body |-> "shipped report"],
     [table |-> "custom_synonyms", id |-> 2, term |-> "leave", body |-> "vacation"]}

\* the database files that can be in place before the update
PreviousDbs ==
    {NoDbFile} \cup {[origin |-> "previous", tables |-> LocalTables, rows |-> rs] :
                        rs \in SUBSET LocalRows}

\* the database files that can be staged in data/pending_update
StagedDbs ==
    {NoDbFile} \cup
    {[origin |-> "staged", tables |-> ts, rows |-> rs] :
        <<ts, rs>> \in {x \in (SUBSET LocalTables) \X (SUBSET ShippedRows) :
                           \A r \in x[2] : r.table \in x[1]}}

\* INSERT OR IGNORE INTO <table> ...: OperationalError (no such table) is
\* swallowed at line 60; a row that collides with the primary key, or with
\* the UNIQUE canonical_term of custom_synonyms, is ignored
Collides(r, rows) ==
    \E x \in rows : /\ x.table = r.table
                    /\ x.id = r.id \/ (r.table = "custom_synonyms" /\ x.term = r.term)

InsertOrIgnore(file, r) ==
    IF r.table \notin file.tables \/ Collides(r, file.rows) THEN file
    ELSE [file EXCEPT !.rows = @ \cup {r}]

RECURSIVE ReinsertRows(_, _)
\* lines 54-61: for row in rows, in the order of the SELECT (by id)
ReinsertRows(file, rows) ==
    IF rows = {} THEN file
    ELSE LET r == CHOOSE x \in rows : \A y \in rows : x.id <= y.id
         IN ReinsertRows(InsertOrIgnore(file, r), rows \ {r})

\* lines 47-63: for table, rows in preserved.items()
Reinsert(file, rows) ==
    ReinsertRows(ReinsertRows(file, {r \in rows : r.table = "bug_reports"}),
                 {r \in rows : r.table = "custom_synonyms"})

InitUpdate ==
    /\ StoreIdle /\ RetrIdle
    /\ fusion = Off /\ fallback = Off /\ answer = Off
    /\ synonyms = Off /\ repeated = Off /\ chunker = Off
    /\ batch = Off /\ toggles = Off
    /\ \E previous \in PreviousDbs, staged \in StagedDbs, metadata \in BOOLEAN :
          update = [pc |-> "start", previous |-> previous, staged |-> staged,
                    current_db |-> previous, pending_db |-> staged,
                    backup |-> NoDbFile, preserved |-> {},
                    metadata |-> staged # NoDbFile /\ metadata,
                    index_version |-> "old", outcome |-> "none"]

\* lines 19-21: nothing is staged
apply_pending_update_none ==
    /\ update.pc = "start"
    /\ update.pending_db = NoDbFile
    /\ update' = [update EXCEPT !.pc = "done", !.outcome = "nothing staged"]
    /\ UNCHANGED <<storeVars, retrVars, pureVars, batch, toggles>>

\* lines 27-42: read the rows of the two tables from the current database
\* and copy the file to app.db.backup
apply_pending_update_preserve ==
    /\ update.pc = "start"
    /\ update.pending_db # NoDbFile
    /\ update' = [update EXCEPT
                    !.pc = "preserved",
                    !.preserved = update.current_db.rows,
                    !.backup = IF update.current_db # NoDbFile THEN update.current_db ELSE @]
    /\ UNCHANGED <<storeVars, retrVars, pureVars, batch, toggles>>

\* line 45: shutil.move(pending_db, current_db)
apply_pending_update_swap ==
    /\ update.pc = "preserved"
    /\ update' = [update EXCEPT !.pc = "swapped", !.current_db = update.pending_db,
                                !.pending_db = NoDbFile]
    /\ UNCHANGED <<storeVars, retrVars, pureVars, batch, toggles>>

\* lines 48-65: re-insert the preserved rows and commit
apply_pending_update_reinsert ==
    /\ update.pc = "swapped"
    /\ update' = [update EXCEPT !.pc = "reinserted",
                                !.current_db = Reinsert(update.current_db, update.preserved)]
    /\ UNCHANGED <<storeVars, retrVars, pureVars, batch, toggles>>

\* lines 68-77: write the version file, remove the staging directory
apply_pending_update_finish ==
    /\ update.pc = "reinserted"
    /\ update' = [update EXCEPT
                    !.pc = "done", !.outcome = "applied", !.metadata = FALSE,
                    !.index_version = IF update.metadata THEN "new" ELSE @]
    /\ UNCHANGED <<storeVars, retrVars, pureVars, batch, toggles>>

\* lines 79-85: a statement of the try block raised (the move fails, the
\* staged file cannot be opened as a database, metadata.json does not parse):
\* the backup, when there is one, is copied over current_db
apply_pending_update_fails ==
    /\ \/ update.pc = "preserved"
       \/ update.pc = "swapped" /\ update.preserved # {}
       \/ update.pc = "reinserted" /\ update.metadata
    /\ update' = [update EXCEPT
                    !.pc = "done", !.outcome = "failed",
                    !.current_db = IF update.backup # NoDbFile THEN update.backup ELSE @]
    /\ UNCHANGED <<storeVars, retrVars, pureVars, batch, toggles>>

NextUpdate ==
    \/ apply_pending_update_none
    \/ apply_pending_update_preserve
    \/ apply_pending_update_swap
    \/ apply_pending_update_reinsert
    \/ apply_pending_update_finish
    \/ apply_pending_update_fails

SpecUpdate == InitUpdate /\ [][NextUpdate]_vars

\* the function has returned after finding a staged database
UpdateAttempted == update # Off /\ update.pc = "done" /\ update.staged # NoDbFile

\* C30: afterwards either the staged database is in place and holds every
\* bug-report and custom-synonym row the previous database held, or the
\* previous database is in place unchanged.
C30_AllOrNothing ==
    UpdateAttempted =>
        \/ /\ update.current_db.origin = "staged"
           /\ update.previous.rows \subseteq update.current_db.rows
        \/ update.current_db = update.previous

====
